---- MODULE Spec2Model ----
(***************************************************************************)
(* A model of the geometry core of visualmapper (utils/geometry, kept in   *)
(* src/components/CranePickerModal.tsx from line 463 on) and of the sheet  *)
(* calibration state of the App component (src/unnamed/part_006).          *)
(*                                                                         *)
(* Numbers.  The source computes in IEEE doubles.  The model computes in   *)
(* exact rational arithmetic over integer inputs: a point is a record      *)
(* [x, y] of integers, a derived point that need not be integral carries a *)
(* denominator [x, y, d] and stands for (x/d, y/d), and two distances are  *)
(* compared through their squares, cross-multiplied.  The snap engine and  *)
(* the calibration scale divide, so their numbers are fractions [n, d] in  *)
(* lowest terms.  Rounding of doubles is not modelled.                     *)
(***************************************************************************)
EXTENDS Integers, Sequences, FiniteSets, TLC

VARIABLES
    \* polygon drawing harness (checkPolygonSelfIntersection)
    ring,        \* the vertices the user clicks, in order
    drawn,       \* how many of them have been offered so far
    flag,        \* result of the last checkPolygonSelfIntersection call
    flagged,     \* TRUE once any call so far has returned true
    dpc,         \* "idle" | "drawing" | "closed"
    \* overlap harness (doPolygonsIntersect, calculateMTV)
    movingPoly,  \* the moving polygon
    staticPoly,  \* the static polygon
    hit,         \* doPolygonsIntersect(movingPoly, staticPoly)
    mtv,         \* calculateMTV(movingPoly, staticPoly)
    moved,       \* movingPoly translated by mtv: vertices pts[i]/d
    movedHit,    \* doPolygonsIntersect(moved, staticPoly)
    opc,         \* "idle" | "input" | "tested" | "moved"
    \* snap harness (calculateSnapCorrection, getClosestGridPoint,
    \* getClosestSnapPoint)
    snPoints,    \* the moving points, or the one target point
    snShapes,    \* the shapes snapped to
    snThreshold, \* the snap threshold
    snGrid,      \* [present, config]: the optional gridConfig argument
    snPpm,       \* the pixelsPerMeter argument
    snCorrection, \* result of calculateSnapCorrection
    snGridPoint, \* result of getClosestGridPoint
    snClosest,   \* result of getClosestSnapPoint
    snpc,        \* "idle" | "input" | "corrected" | "gridded" | "snapped"
    \* calibration state of the active sheet (App)
    calibrationData,           \* the ruler samples [pixels, meters]
    coordRefs,                 \* the coordinate references [id, pixel, world]
    pendingMeasurementPixels,  \* <<>> for null, <<pixels>> for a measurement
    \* calls of the pure functions (export point mappers, axis labels, area,
    \* point in polygon, label rotation)
    fnArgs,      \* the arguments of the call, a record
    fnResult,    \* the value returned, <<>> before the call
    fnpc,        \* "idle" | "input" | the name of the function called
    \* the locals of resolveAllOverlaps
    currentPoly, \* [pts, d]: the polygon, with vertices pts[i]/d
    iteration,   \* the loop counter
    hasOverlap,  \* the flag of the last pass
    \* the active sheet and its undo history (App), the drawing surface
    \* (Canvas), the DXF export module and the objects of a call
    sheetShapes,       \* activeSheet.shapes: records [id, type, points]
    history,           \* the snapshots of sheetShapes
    historyIndex,      \* index of the current snapshot, 0-based, -1 at start
    polyDraw,          \* [isActive, points]: the polygon being drawn
    dragState,         \* [isDragging, ...]: the drag in progress
    scale,             \* the zoom factor: screen pixels per world unit
    allowOutsideDraw,  \* whether points may leave the image
    preventOverlap,    \* whether area shapes are kept from overlapping
    dxfHandleCounter,  \* the module-level handle counter of the DXF export
    dxfOutputs,        \* the exports made so far: [sheet, output]
    heap               \* the arrays alive during a call, by reference

drawVars == <<ring, drawn, flag, flagged, dpc>>
overlapVars == <<movingPoly, staticPoly, hit, mtv, moved, movedHit, opc>>

snapVars == <<snPoints, snShapes, snThreshold, snGrid, snPpm, snCorrection,
              snGridPoint, snClosest, snpc>>

calVars == <<calibrationData, coordRefs, pendingMeasurementPixels>>

loopVars == <<currentPoly, iteration, hasOverlap>>

fnVars == <<fnArgs, fnResult, fnpc, loopVars>>

sheetVars == <<sheetShapes, history, historyIndex>>

canvasVars == <<polyDraw, dragState, scale, allowOutsideDraw, preventOverlap>>

dxfVars == <<dxfHandleCounter, dxfOutputs>>

appVars == <<sheetVars, canvasVars, dxfVars, heap>>

vars == <<drawVars, overlapVars, snapVars, calVars, fnVars, appVars>>

\* ------------------------------------------------------------------ bounds
MaxCoord == 2
MaxRingLen == 4
MaxThreshold == 2
MaxSamples == 2
Far == 2000

\* ------------------------------------------------------------- primitives
Abs(n) == IF n < 0 THEN -n ELSE n
Min2(a, b) == IF a < b THEN a ELSE b
Max2(a, b) == IF a > b THEN a ELSE b

Pt(px, py) == [x |-> px, y |-> py]

Coords == 0..MaxCoord
GridPoints == {Pt(i, j) : i \in Coords, j \in Coords}

\* Number of vertices and cyclic successor index (i + 1) % n, 1-based.
NextIdx(i, n) == (i % n) + 1

Sign(n) == IF n < 0 THEN -1 ELSE IF n = 0 THEN 0 ELSE 1

RECURSIVE GCD(_, _)
GCD(a, b) == IF b = 0 THEN a ELSE GCD(b, a % b)

\* The sign of a * b - c * d, computed exactly for |a|, |b|, |c|, |d| < 2^28.
\* The model checker's integers are 32 bits wide while a product of two
\* coordinates differences of the model can need 56, so a product is held in
\* three limbs of 14 bits, <<h2, h1, h0>> = h2 * 2^28 + h1 * 2^14 + h0.
Mul3(a, b) ==
    LET Limb == 16384
        ah == a \div Limb
        al == a % Limb
        bh == b \div Limb
        bl == b % Limb
        t0 == al * bl
        t1 == ah * bl + al * bh + (t0 \div Limb)
    IN  <<ah * bh + (t1 \div Limb), t1 % Limb, t0 % Limb>>

Cmp3(u, v) ==
    IF u[1] # v[1] THEN Sign(u[1] - v[1])
    ELSE IF u[2] # v[2] THEN Sign(u[2] - v[2])
    ELSE Sign(u[3] - v[3])

Small(n) == -32768 < n /\ n < 32768

CmpProd(a, b, c, d) ==
    IF Small(a) /\ Small(b) /\ Small(c) /\ Small(d)
    THEN Sign(a * b - c * d)
    ELSE LET sab == Sign(a) * Sign(b)
             scd == Sign(c) * Sign(d)
         IN  IF sab # scd THEN Sign(sab - scd)
             ELSE IF sab = 0 THEN 0
             ELSE sab * Cmp3(Mul3(Abs(a), Abs(b)), Mul3(Abs(c), Abs(d)))

\* orientation: the sign of
\*   val = (q.y - p.y) * (r.x - q.x) - (q.x - p.x) * (r.y - q.y)
\* as 0 (val = 0), 1 (val > 0) or 2 (val < 0).
orientation(p, q, r) ==
    LET sg == CmpProd(q.y - p.y, r.x - q.x, q.x - p.x, r.y - q.y)
    IN  IF sg = 0 THEN 0 ELSE IF sg > 0 THEN 1 ELSE 2

\* A coincidence test whose tolerance is 0: it never holds.
NearEpsZero(a, b) == Abs(a.x - b.x) < 0 /\ Abs(a.y - b.y) < 0

\* Math.abs(a.x - b.x) < 0.1 && Math.abs(a.y - b.y) < 0.1, with 0.1 as 1/10.
NearEps(a, b) == 10 * Abs(a.x - b.x) < 1 /\ 10 * Abs(a.y - b.y) < 1

\* segmentsCross: orientations differ on both sides and no endpoint of one
\* segment coincides (within eps) with an endpoint of the other.
segmentsCross(a1, a2, b1, b2) ==
    LET o1 == orientation(a1, a2, b1)
        o2 == orientation(a1, a2, b2)
        o3 == orientation(b1, b2, a1)
        o4 == orientation(b1, b2, a2)
    IN  IF o1 # o2 /\ o3 # o4
        THEN ~ (NearEps(a1, b1) \/ NearEps(a1, b2)
                \/ NearEps(a2, b1) \/ NearEps(a2, b2))
        ELSE FALSE

\* checkPolygonSelfIntersection(points, nextPoint).  The source indexes from
\* 0 and loops i = startIdx .. endIdx-1 over segments points[i]-points[i+1];
\* here sequences are 1-based, so segment i of the source is
\* points[i+1]-points[i+2].
checkPolygonSelfIntersection(points, nextPoint) ==
    IF Len(points) < 3 THEN FALSE
    ELSE
      LET p1 == points[Len(points)]
          q1 == nextPoint
          isClosing == NearEps(nextPoint, points[1])
          startIdx == IF isClosing THEN 1 ELSE 0
          endIdx == Len(points) - 2
      IN  \E i \in startIdx..(endIdx - 1) :
              segmentsCross(p1, q1, points[i + 1], points[i + 2])

\* ------------------------------------------------------ polygon overlap
RECURSIVE SumX(_, _), SumY(_, _)
SumX(points, k) == IF k = 0 THEN 0 ELSE SumX(points, k - 1) + points[k].x
SumY(points, k) == IF k = 0 THEN 0 ELSE SumY(points, k - 1) + points[k].y

\* getCentroid for a non-empty list is the vertex sum over the vertex count
\* (the 1- and 2-point branches give the same value).  CentroidNum is the
\* numerator; the denominator is Len(points).
CentroidNum(points) == Pt(SumX(points, Len(points)), SumY(points, Len(points)))

\* scalePolygon(points, scale) with scale = num/den: every vertex becomes
\* center + (p - center) * scale.  The result is given in integer units of
\* 1/(den * Len(points) * m); the extra factor m lets two polygons with
\* different vertex counts be brought to one unit.
scalePolygon(points, num, den, m) ==
    LET n == Len(points)
        c == CentroidNum(points)
    IN  [i \in 1..n |->
            Pt(m * (den * c.x + num * (n * points[i].x - c.x)),
               m * (den * c.y + num * (n * points[i].y - c.y)))]

RECURSIVE MinOf(_, _), MaxOf(_, _)
MinOf(f, k) == IF k = 1 THEN f[1] ELSE Min2(MinOf(f, k - 1), f[k])
MaxOf(f, k) == IF k = 1 THEN f[1] ELSE Max2(MaxOf(f, k - 1), f[k])

\* isPointInPolygon: bounding-box rejection, then the even-odd crossing
\* count.  The source's test
\*   p.x < (xj - xi) * (p.y - yi) / (yj - yi) + xi
\* is evaluated without division by multiplying with yj - yi, which is
\* non-zero whenever the first conjunct (yi > p.y) # (yj > p.y) holds.
\* A variant that counts every edge whose ends lie on either side of the
\* ray's line, wherever it is met.
RayCrossesAnySide(p, pi, pj) == (pi.y > p.y) # (pj.y > p.y)

RayCrosses(p, pi, pj) ==
    /\ (pi.y > p.y) # (pj.y > p.y)
    /\ IF pj.y - pi.y > 0
       THEN CmpProd(p.x - pi.x, pj.y - pi.y, pj.x - pi.x, p.y - pi.y) < 0
       ELSE CmpProd(p.x - pi.x, pj.y - pi.y, pj.x - pi.x, p.y - pi.y) > 0

isPointInPolygon(p, polygon) ==
    LET n == Len(polygon)
        xs == [i \in 1..n |-> polygon[i].x]
        ys == [i \in 1..n |-> polygon[i].y]
        PrevIdx(i) == IF i = 1 THEN n ELSE i - 1
    IN  IF p.x < MinOf(xs, n) \/ p.x > MaxOf(xs, n)
           \/ p.y < MinOf(ys, n) \/ p.y > MaxOf(ys, n)
        THEN FALSE
        ELSE Cardinality({i \in 1..n :
                 RayCrosses(p, polygon[i], polygon[PrevIdx(i)])}) % 2 = 1

\* A variant of the body of doPolygonsIntersect without its last test,
\* isPointInPolygon(p2[0], p1).
EdgesOrVertexInsideOneWay(p1, p2) ==
    \/ \E i \in 1..Len(p1) : \E j \in 1..Len(p2) :
          LET a == p1[i]
              b == p1[NextIdx(i, Len(p1))]
              c == p2[j]
              d == p2[NextIdx(j, Len(p2))]
          IN  /\ orientation(a, b, c) # orientation(a, b, d)
              /\ orientation(c, d, a) # orientation(c, d, b)
    \/ isPointInPolygon(p1[1], p2)

\* The body of doPolygonsIntersect after the two scalePolygon calls.
EdgesOrVertexInside(p1, p2) ==
    \/ \E i \in 1..Len(p1) : \E j \in 1..Len(p2) :
          LET a == p1[i]
              b == p1[NextIdx(i, Len(p1))]
              c == p2[j]
              d == p2[NextIdx(j, Len(p2))]
          IN  /\ orientation(a, b, c) # orientation(a, b, d)
              /\ orientation(c, d, a) # orientation(c, d, b)
    \/ isPointInPolygon(p1[1], p2)
    \/ isPointInPolygon(p2[1], p1)

\* doPolygonsIntersect with a shrink factor of exactly 1 (no shrink).
doPolygonsIntersectNoShrink(poly1, poly2) ==
    EdgesOrVertexInside(scalePolygon(poly1, 1, 1, Len(poly2)),
                        scalePolygon(poly2, 1, 1, Len(poly1)))

\* doPolygonsIntersect(poly1, poly2): both polygons shrunk by 0.999 = 999/1000
\* toward their centroids, brought to the common unit
\* 1/(1000 * Len(poly1) * Len(poly2)).
doPolygonsIntersect(poly1, poly2) ==
    EdgesOrVertexInside(scalePolygon(poly1, 999, 1000, Len(poly2)),
                        scalePolygon(poly2, 999, 1000, Len(poly1)))

\* ------------------------------------------------------------ calculateMTV
\* getEdges, perpendicular.
getEdges(poly) ==
    [i \in 1..Len(poly) |->
        Pt(poly[NextIdx(i, Len(poly))].x - poly[i].x,
           poly[NextIdx(i, Len(poly))].y - poly[i].y)]

perpendicular(v) == Pt(-v.y, v.x)

\* normalize(v) is v/|v|, or (0,0) for the zero vector.  The model keeps the
\* direction as the shortest integer vector n parallel to v; the unit axis is
\* n/|n| with |n|^2 = n . n.
normalize(v) ==
    LET g == GCD(Abs(v.x), Abs(v.y))
    IN  IF g = 0 THEN Pt(0, 0) ELSE Pt(v.x \div g, v.y \div g)

Dot(a, b) == a.x * b.x + a.y * b.y

\* projectPolygon on the axis n/|n|, in units of 1/|n|: the minimum and the
\* maximum of p . n over the vertices.
projectPolygon(poly, n) ==
    LET f == [i \in 1..Len(poly) |-> Dot(poly[i], n)]
    IN  [min |-> MinOf(f, Len(poly)), max |-> MaxOf(f, Len(poly))]

\* The axis n = normalize(perpendicular(edge)) stands for the unit axis
\* n/|n|.  On it a projection p . n/|n| is the integer p . n divided by |n|,
\* so the gap test compares integers, and an overlap amount is
\* ou / sqrt(len2) with ou an integer >= 0 and len2 = n . n.
\* The gap test with <= in place of <.
AxisGapInclusive(mov, sta, n) ==
    LET proj1 == projectPolygon(mov, n)
        proj2 == projectPolygon(sta, n)
    IN  proj1.max <= proj2.min \/ proj2.max <= proj1.min

AxisGap(mov, sta, n) ==
    LET proj1 == projectPolygon(mov, n)
        proj2 == projectPolygon(sta, n)
    IN  proj1.max < proj2.min \/ proj2.max < proj1.min

AxisOverlap(mov, sta, n) ==
    LET proj1 == projectPolygon(mov, n)
        proj2 == projectPolygon(sta, n)
    IN  Min2(proj1.max - proj2.min, proj2.max - proj1.min)

\* overlap < minOverlap for ou1/sqrt(l1) against ou2/sqrt(l2), both >= 0.
OverlapLess(ou1, l1, ou2, l2) == ou1 * ou1 * l2 < ou2 * ou2 * l1

NullVec == [isNull |-> TRUE, x |-> 0, y |-> 0, d |-> 1]

\* The loop over allEdges: best is 0 while minOverlap is Infinity, else the
\* index of the axis that holds the running minimum.
RECURSIVE MTVLoop(_, _, _, _, _)
MTVLoop(mov, sta, axes, k, best) ==
    IF k > Len(axes) THEN best
    ELSE
      LET n == axes[k]
      IN  IF n.x = 0 /\ n.y = 0 THEN MTVLoop(mov, sta, axes, k + 1, best)
          ELSE IF best = 0
                  \/ OverlapLess(AxisOverlap(mov, sta, n), Dot(n, n),
                                 AxisOverlap(mov, sta, axes[best]),
                                 Dot(axes[best], axes[best]))
               THEN MTVLoop(mov, sta, axes, k + 1, k)
               ELSE MTVLoop(mov, sta, axes, k + 1, best)

MTVAxes(mov, sta) ==
    LET allEdges == getEdges(mov) \o getEdges(sta)
    IN  [i \in 1..Len(allEdges) |-> normalize(perpendicular(allEdges[i]))]

MTVAxisIndex(mov, sta) ==
    LET axes == MTVAxes(mov, sta)
    IN  IF \E k \in 1..Len(axes) :
              (axes[k].x # 0 \/ axes[k].y # 0) /\ AxisGap(mov, sta, axes[k])
        THEN 0
        ELSE MTVLoop(mov, sta, axes, 1, 0)

\* sign of centerToCenter . mtvAxis, centerToCenter = centroid(moving) -
\* centroid(static), with the positive factors |n| and the vertex counts
\* multiplied out.
CenterDot(mov, sta, n) ==
    LET cm == CentroidNum(mov)
        cs == CentroidNum(sta)
    IN  (cm.x * Len(sta) - cs.x * Len(mov)) * n.x
        + (cm.y * Len(sta) - cs.y * Len(mov)) * n.y

\* The direction test with the comparison reversed.
MTVSignReversed(mov, sta, n) == IF CenterDot(mov, sta, n) < 0 THEN 1 ELSE -1

MTVSign(mov, sta, n) == IF CenterDot(mov, sta, n) < 0 THEN -1 ELSE 1

\* calculateMTV(movingPoly, staticPoly): null, or the vector
\* +-(n/|n|) * (ou/|n|) = +-n * ou / (n . n), kept as (x/d, y/d).
calculateMTV(mov, sta) ==
    LET k == MTVAxisIndex(mov, sta)
    IN  IF k = 0 THEN NullVec
        ELSE LET n == MTVAxes(mov, sta)[k]
                 ou == AxisOverlap(mov, sta, n)
                 sg == MTVSign(mov, sta, n)
             IN  [isNull |-> FALSE, x |-> sg * n.x * ou, y |-> sg * n.y * ou,
                  d |-> Dot(n, n)]

\* ------------------------------------------------------ exact fractions
\* The snap engine divides (projection parameter, grid step), so its points
\* have fractions as coordinates: [n, d] with d > 0, in lowest terms, so that
\* equal numbers are equal records.
Frac(n, d) ==
    LET g == GCD(Abs(n), Abs(d))
        sg == IF d < 0 THEN -1 ELSE 1
    IN  [n |-> sg * (n \div g), d |-> sg * (d \div g)]

FInt(n) == [n |-> n, d |-> 1]
\* Common factors are divided out before the products are formed, so that
\* an intermediate value is no larger than the result requires.
FAdd(a, b) ==
    LET g == GCD(a.d, b.d)
    IN  Frac(a.n * (b.d \div g) + b.n * (a.d \div g), (a.d \div g) * b.d)
FNeg(a) == [n |-> -a.n, d |-> a.d]
FSub(a, b) == FAdd(a, FNeg(b))
FMul(a, b) ==
    LET g1 == IF a.n = 0 THEN b.d ELSE GCD(Abs(a.n), b.d)
        g2 == IF b.n = 0 THEN a.d ELSE GCD(Abs(b.n), a.d)
    IN  Frac((a.n \div g1) * (b.n \div g2), (a.d \div g2) * (b.d \div g1))
FDiv(a, b) == FMul(a, Frac(b.d, b.n))
FLess(a, b) ==
    LET g == GCD(a.d, b.d)
    IN  a.n * (b.d \div g) < b.n * (a.d \div g)
FMin(a, b) == IF FLess(b, a) THEN b ELSE a
FMax(a, b) == IF FLess(a, b) THEN b ELSE a
\* Math.round: the nearest integer, halves rounded up.
FRound(a) == (2 * a.n + a.d) \div (2 * a.d)

\* A point with fraction coordinates, and the embedding of an integer point.
RPt(fx, fy) == [x |-> fx, y |-> fy]
ToR(p) == RPt(FInt(p.x), FInt(p.y))
ToRSeq(points) == [i \in 1..Len(points) |-> ToR(points[i])]

\* getDistance(p1, p2) squared.  Distances are >= 0, so d1 < d2 is decided
\* on the squares.
getDistance2(p1, p2) ==
    LET dx == FSub(p2.x, p1.x)
        dy == FSub(p2.y, p1.y)
    IN  FAdd(FMul(dx, dx), FMul(dy, dy))

getMidpoint(p1, p2) ==
    RPt(FDiv(FAdd(p1.x, p2.x), FInt(2)), FDiv(FAdd(p1.y, p2.y), FInt(2)))

\* getClosestPointOnSegment(p, a, b).
getClosestPointOnSegment(p, a, b) ==
    LET atobx == FSub(b.x, a.x)
        atoby == FSub(b.y, a.y)
        atopx == FSub(p.x, a.x)
        atopy == FSub(p.y, a.y)
        lenSq == FAdd(FMul(atobx, atobx), FMul(atoby, atoby))
        dot == FAdd(FMul(atopx, atobx), FMul(atopy, atoby))
        t0 == IF lenSq = FInt(0) THEN FInt(0) ELSE FDiv(dot, lenSq)
        t == FMax(FInt(0), FMin(FInt(1), t0))
    IN  RPt(FAdd(a.x, FMul(atobx, t)), FAdd(a.y, FMul(atoby, t)))

\* ------------------------------------------------ calculateSnapCorrection
\* A shape as the snap functions read it: type, points, visible, locked and
\* the axis configuration (hasAxisConfig is false when the field is unset).
\* A string is the sequence of its character codes.  count is a number or
\* NaN (countNaN), which parseInt gives for an emptied input.
NoAxisConfig == [defined |-> FALSE]

AxisConfig(spacingMm, count, startLabel, lengthMm, bothEnds, reverse) ==
    [defined |-> TRUE, spacingMm |-> spacingMm, count |-> count,
     countNaN |-> FALSE, startLabel |-> startLabel, lengthMm |-> lengthMm,
     bothEnds |-> bothEnds, reverse |-> reverse]

NaNCount(config) == [config EXCEPT !.countNaN = TRUE]

MkShape(type, points) ==
    [type |-> type, points |-> points, visible |-> TRUE, locked |-> FALSE,
     hasAxisConfig |-> FALSE, axisConfig |-> NoAxisConfig]

IsAreaType(type) == type \in {"polygon", "rectangle", "square"}

\* staticShapes.filter(s => polygon | rectangle | square)
RECURSIVE FilterShapes(_, _)
FilterShapes(shapes, k) ==
    IF k = 0 THEN <<>>
    ELSE IF IsAreaType(shapes[k].type)
         THEN Append(FilterShapes(shapes, k - 1), shapes[k])
         ELSE FilterShapes(shapes, k - 1)

VertexCand(mp, shape, i) == ToR(shape.points[i])

EdgeCand(mp, shape, i) ==
    getClosestPointOnSegment(mp, ToR(shape.points[i]),
        ToR(shape.points[NextIdx(i, Len(shape.points))]))

\* The candidates of a phase ("vertex" or "edge") in the order the nested
\* loops visit them: moving point, then shape, then vertex (or edge) index.
PhaseCand(phase, mp, shape, i) ==
    IF phase = "vertex" THEN VertexCand(mp, shape, i) ELSE EdgeCand(mp, shape, i)

RECURSIVE LoopPoints(_, _, _, _, _), LoopShapes(_, _, _, _), LoopMoving(_, _, _, _)
LoopPoints(phase, mp, shape, i, acc) ==
    IF i > Len(shape.points) THEN acc
    ELSE LoopPoints(phase, mp, shape, i + 1,
                    Append(acc, [mp |-> mp, sp |-> PhaseCand(phase, mp, shape, i)]))

LoopShapes(phase, mp, shapes, acc) ==
    IF shapes = <<>> THEN acc
    ELSE LoopShapes(phase, mp, Tail(shapes),
                    LoopPoints(phase, mp, Head(shapes), 1, acc))

LoopMoving(phase, moving, shapes, acc) ==
    IF moving = <<>> THEN acc
    ELSE LoopMoving(phase, Tail(moving), shapes,
                    LoopShapes(phase, Head(moving), shapes, acc))

\* The running minimum: `if (d < minDst) { minDst = d; ... }` over the
\* candidates from index k on.  st = [found, minDst2, mp, sp]; minDst2 is the
\* square of minDst (the threshold is not negative in the runs).
RECURSIVE MinScan(_, _, _)
MinScan(cands, k, st) ==
    IF k > Len(cands) THEN st
    ELSE LET d2 == getDistance2(cands[k].mp, cands[k].sp)
         IN  IF FLess(d2, st.minDst2)
             THEN MinScan(cands, k + 1,
                     [found |-> TRUE, minDst2 |-> d2,
                      mp |-> cands[k].mp, sp |-> cands[k].sp])
             ELSE MinScan(cands, k + 1, st)

ScanStart(threshold) ==
    [found |-> FALSE, minDst2 |-> FInt(threshold * threshold),
     mp |-> ToR(Pt(0, 0)), sp |-> ToR(Pt(0, 0))]

\* The value returned: delta = (snapX, snapY), and snapPoint or null.
SnapResult(st) ==
    IF st.found
    THEN [delta |-> RPt(FSub(st.sp.x, st.mp.x), FSub(st.sp.y, st.mp.y)),
          hasSnapPoint |-> TRUE, snapPoint |-> st.sp]
    ELSE [delta |-> ToR(Pt(0, 0)), hasSnapPoint |-> FALSE,
          snapPoint |-> ToR(Pt(0, 0))]

\* calculateSnapCorrection without the early return after the vertex phase:
\* the edge phase goes on from the vertex phase's minimum.
calculateSnapCorrectionFallThrough(movingPoints, staticShapes, threshold) ==
    LET valid == FilterShapes(staticShapes, Len(staticShapes))
        moving == ToRSeq(movingPoints)
        v == MinScan(LoopMoving("vertex", moving, valid, <<>>), 1,
                     ScanStart(threshold))
    IN  SnapResult(MinScan(LoopMoving("edge", moving, valid, <<>>), 1, v))

calculateSnapCorrection(movingPoints, staticShapes, threshold) ==
    LET valid == FilterShapes(staticShapes, Len(staticShapes))
        moving == ToRSeq(movingPoints)
        v == MinScan(LoopMoving("vertex", moving, valid, <<>>), 1,
                     ScanStart(threshold))
    IN  IF v.found THEN SnapResult(v)
        ELSE SnapResult(MinScan(LoopMoving("edge", moving, valid, <<>>), 1,
                                ScanStart(threshold)))

\* ---------------------------------------------------- getClosestGridPoint
\* pixelsPerMeter is a number or null; `pixelsPerMeter ? a : b` takes b for
\* null and for 0.
PpmNull == [isNull |-> TRUE, v |-> FInt(0)]
Ppm(f) == [isNull |-> FALSE, v |-> f]
Truthy(ppm) == ~ ppm.isNull /\ ppm.v # FInt(0)

\* const pxPerMm = pixelsPerMeter ? pixelsPerMeter / 1000 : 1
PxPerMm(ppm) == IF Truthy(ppm) THEN FDiv(ppm.v, FInt(1000)) ELSE FInt(1)

NoPoint == [isNull |-> TRUE, pt |-> ToR(Pt(0, 0))]
SomePoint(q) == [isNull |-> FALSE, pt |-> q]

\* getClosestGridPoint with the floor of 2 pixels left out.
getClosestGridPointNoFloor(p, gridConfig, ppm) ==
    IF ~ gridConfig.visible THEN NoPoint
    ELSE LET stepPx == FMul(FInt(gridConfig.sizeMm), PxPerMm(ppm))
         IN  IF stepPx = FInt(0) THEN NoPoint
             ELSE LET relX == FSub(p.x, FInt(gridConfig.offsetX))
                      relY == FSub(p.y, FInt(gridConfig.offsetY))
                      snapX == FAdd(FMul(FInt(FRound(FDiv(relX, stepPx))), stepPx),
                                    FInt(gridConfig.offsetX))
                      snapY == FAdd(FMul(FInt(FRound(FDiv(relY, stepPx))), stepPx),
                                    FInt(gridConfig.offsetY))
                  IN  SomePoint(RPt(snapX, snapY))

getClosestGridPoint(p, gridConfig, ppm) ==
    IF ~ gridConfig.visible THEN NoPoint
    ELSE LET stepPx == FMul(FInt(gridConfig.sizeMm), PxPerMm(ppm))
         IN  IF FLess(stepPx, FInt(2)) THEN NoPoint
             ELSE LET relX == FSub(p.x, FInt(gridConfig.offsetX))
                      relY == FSub(p.y, FInt(gridConfig.offsetY))
                      snapX == FAdd(FMul(FInt(FRound(FDiv(relX, stepPx))), stepPx),
                                    FInt(gridConfig.offsetX))
                      snapY == FAdd(FMul(FInt(FRound(FDiv(relY, stepPx))), stepPx),
                                    FInt(gridConfig.offsetY))
                  IN  SomePoint(RPt(snapX, snapY))

\* ----------------------------------------------------- getAxisSystemPoints
FAbs(a) == [n |-> Abs(a.n), d |-> a.d]

\* (cos, sin) of atan2(dy, dx) for a direction of integer length (the
\* directions of the runs are axis-aligned or 3-4-5); atan2(0, 0) is 0.
UnitDir(dx, dy) ==
    IF dx = 0 /\ dy = 0 THEN [x |-> FInt(1), y |-> FInt(0)]
    ELSE LET len == CHOOSE r \in 1..(Abs(dx) + Abs(dy)) : r * r = dx * dx + dy * dy
         IN  [x |-> Frac(dx, len), y |-> Frac(dy, len)]

\* parseInt(string): leading blanks, a sign, then decimal digits (or hex
\* digits after 0x); NaN when no digit is read.
NaN == [nan |-> TRUE, v |-> 0]
Num(v) == [nan |-> FALSE, v |-> v]

DigitValue(c, radix) ==
    LET v == IF c \in 48..57 THEN c - 48
             ELSE IF c \in 65..70 THEN c - 55
             ELSE IF c \in 97..102 THEN c - 87
             ELSE radix
    IN  IF v < radix THEN v ELSE -1

RECURSIVE SkipBlanks(_, _), ParseDigits(_, _, _, _)
SkipBlanks(s, i) ==
    IF i <= Len(s) /\ s[i] \in {9, 32} THEN SkipBlanks(s, i + 1) ELSE i

ParseDigits(s, i, radix, acc) ==
    IF i <= Len(s) /\ DigitValue(s[i], radix) >= 0
    THEN ParseDigits(s, i + 1, radix, Num(acc.v * radix + DigitValue(s[i], radix)))
    ELSE acc

parseInt(s) ==
    LET i == SkipBlanks(s, 1)
        neg == i <= Len(s) /\ s[i] = 45
        j == IF i <= Len(s) /\ s[i] \in {43, 45} THEN i + 1 ELSE i
        hex == j + 1 <= Len(s) /\ s[j] = 48 /\ s[j + 1] \in {88, 120}
        r == IF hex THEN ParseDigits(s, j + 2, 16, NaN)
             ELSE ParseDigits(s, j, 10, NaN)
    IN  IF r.nan THEN NaN ELSE Num(IF neg THEN -r.v ELSE r.v)

\* Number.prototype.toString of an integer
RECURSIVE DecimalDigits(_)
DecimalDigits(n) ==
    IF n < 10 THEN <<48 + n>>
    ELSE Append(DecimalDigits(n \div 10), 48 + (n % 10))

toString(n) == IF n < 0 THEN <<45>> \o DecimalDigits(-n) ELSE DecimalDigits(n)

\* String.fromCharCode takes its argument modulo 2^16
fromCharCode(n) == <<n % 65536>>

\* A variant of getNextLabel that always counts upwards.
getNextLabelForward(startLabel, index, reverse) ==
    IF ~parseInt(startLabel).nan
    THEN toString(parseInt(startLabel).v + index)
    ELSE fromCharCode(startLabel[1] + index)

getNextLabel(startLabel, index, reverse) ==
    LET isNumber == ~parseInt(startLabel).nan
        step == IF reverse THEN -index ELSE index
    IN  IF isNumber THEN toString(parseInt(startLabel).v + step)
        ELSE fromCharCode(startLabel[1] + step)

\* `config.startLabel || "1"`
StartLabelOr1(startLabel) == IF startLabel = <<>> THEN <<49>> ELSE startLabel

MaxLines == 100

\* The number of times the loop `for (i = 0; i < safeCount; i++)` runs:
\* Math.min(count, 100), and no time at all when count is NaN (i < NaN is
\* false).  A variant without the clamp stands before it.
safeCountUnclamped(config) == IF config.countNaN THEN 0 ELSE config.count

safeCount(config) ==
    IF config.countNaN THEN 0 ELSE Min2(config.count, MaxLines)

NoAxisSystem == [lines |-> <<>>, labels |-> <<>>]

\* getAxisSystemPoints: lines as pairs <<p1, p2>>, labels as [pos, text] in
\* the order they are pushed.
getAxisSystemPoints(start, directionPoint, config, ppm) ==
    IF ~config.defined THEN NoAxisSystem
    ELSE IF (~config.countNaN /\ config.count <= 0)
            \/ config.spacingMm <= 0 \/ config.lengthMm <= 0
    THEN NoAxisSystem
    ELSE LET pxPerMm == PxPerMm(ppm)
             lengthPx == FMul(FInt(config.lengthMm), pxPerMm)
             spacingPx == FMul(FInt(config.spacingMm), pxPerMm)
         IN  IF FLess(FAbs(spacingPx), Frac(1, 10)) \/ FLess(FInt(50000), FAbs(lengthPx))
             THEN NoAxisSystem
             ELSE LET dir == UnitDir(directionPoint.x - start.x, directionPoint.y - start.y)
                      \* cos(a + pi/2) = -sin(a), sin(a + pi/2) = cos(a)
                      pdx == FSub(FInt(0), dir.y)
                      pdy == dir.x
                      n == safeCount(config)
                      P1(i) == RPt(FAdd(FInt(start.x), FMul(FMul(pdx, spacingPx), FInt(i))),
                                   FAdd(FInt(start.y), FMul(FMul(pdy, spacingPx), FInt(i))))
                      P2(i) == RPt(FAdd(P1(i).x, FMul(dir.x, lengthPx)),
                                   FAdd(P1(i).y, FMul(dir.y, lengthPx)))
                      labelText(i) == getNextLabel(StartLabelOr1(config.startLabel),
                                                   i, config.reverse)
                  IN  [lines |-> [k \in 1..n |-> <<P1(k - 1), P2(k - 1)>>],
                       labels |->
                          IF config.bothEnds
                          THEN [k \in 1..(2 * n) |->
                                   [pos |-> IF k % 2 = 1 THEN P1((k - 1) \div 2)
                                            ELSE P2((k - 1) \div 2),
                                    text |-> labelText((k - 1) \div 2)]]
                          ELSE [k \in 1..n |->
                                   [pos |-> P1(k - 1), text |-> labelText(k - 1)]]]

\* ----------------------------------------------------- getClosestSnapPoint
\* The candidates of one shape in the order the loop tests them.
RECURSIVE AreaCandidates(_, _, _, _), AxisCandidates(_, _, _, _)
AreaCandidates(target, pts, i, acc) ==
    IF i > Len(pts) THEN acc
    ELSE LET p1 == pts[i]
             p2 == pts[NextIdx(i, Len(pts))]
         IN  AreaCandidates(target, pts, i + 1,
                 acc \o <<p1, getMidpoint(p1, p2),
                          getClosestPointOnSegment(target, p1, p2)>>)

AxisCandidates(target, lines, i, acc) ==
    IF i > Len(lines) THEN acc
    ELSE LET p1 == lines[i][1]
             p2 == lines[i][2]
         IN  AxisCandidates(target, lines, i + 1,
                 acc \o <<getClosestPointOnSegment(target, p1, p2), p2, p1>>)

\* A variant of Skipped under which no shape is passed over.
SkippedNever(shape) == FALSE

\* `if (shape.visible === false || shape.locked) continue`
Skipped(shape) == shape.visible = FALSE \/ shape.locked

ShapeCandidates(target, shape, ppm) ==
    IF Skipped(shape) THEN <<>>
    ELSE IF IsAreaType(shape.type)
    THEN AreaCandidates(target, ToRSeq(shape.points), 1, <<>>)
    ELSE IF shape.type = "axis" /\ shape.hasAxisConfig
    THEN AxisCandidates(target,
             getAxisSystemPoints(shape.points[1], shape.points[2],
                                 shape.axisConfig, ppm).lines, 1, <<>>)
    ELSE <<>>

RECURSIVE AllShapeCandidates(_, _, _, _)
AllShapeCandidates(target, shapes, ppm, acc) ==
    IF shapes = <<>> THEN acc
    ELSE AllShapeCandidates(target, Tail(shapes), ppm,
             acc \o ShapeCandidates(target, Head(shapes), ppm))

\* gridConfig is optional: hasGrid is false when the argument is left out.
GridCandidates(target, hasGrid, gridConfig, ppm) ==
    IF ~ hasGrid THEN <<>>
    ELSE LET g == getClosestGridPoint(target, gridConfig, ppm)
         IN  IF g.isNull THEN <<>> ELSE <<g.pt>>

getClosestSnapPoint(target, shapes, threshold, hasGrid, gridConfig, ppm) ==
    LET cands == GridCandidates(target, hasGrid, gridConfig, ppm)
                 \o AllShapeCandidates(target, shapes, ppm, <<>>)
        st == MinScan([k \in 1..Len(cands) |-> [mp |-> target, sp |-> cands[k]]],
                      1, ScanStart(threshold))
    IN  IF st.found THEN SomePoint(st.sp) ELSE NoPoint

\* ------------------------------------------------------- drawing harness
\* Rings offered to the drawing calls: every list of 3..MaxRingLen distinct
\* grid points, and the two rings the specification names.
SquareRing == <<Pt(0, 0), Pt(10, 0), Pt(10, 10), Pt(0, 10)>>
BowtieRing == <<Pt(0, 0), Pt(10, 10), Pt(10, 0), Pt(0, 10)>>

Distinct(s) == \A i, j \in 1..Len(s) : i < j => s[i] # s[j]

DrawIdle ==
    /\ ring = <<>> /\ drawn = 0 /\ flag = FALSE /\ flagged = FALSE
    /\ dpc = "idle"

OverlapIdle ==
    /\ movingPoly = <<>> /\ staticPoly = <<>> /\ hit = FALSE
    /\ mtv = NullVec /\ moved = [pts |-> <<>>, d |-> 1] /\ movedHit = FALSE
    /\ opc = "idle"

NoGrid ==
    [present |-> FALSE,
     config |-> [visible |-> FALSE, sizeMm |-> 0, offsetX |-> 0, offsetY |-> 0]]

NoCorrection == SnapResult(ScanStart(0))

SnapIdle ==
    /\ snPoints = <<>> /\ snShapes = <<>> /\ snThreshold = 0
    /\ snGrid = NoGrid /\ snPpm = PpmNull /\ snCorrection = NoCorrection
    /\ snGridPoint = NoPoint /\ snClosest = NoPoint
    /\ snpc = "idle"

CalIdle ==
    calibrationData = <<>> /\ coordRefs = <<>> /\ pendingMeasurementPixels = <<>>

LoopIdle ==
    currentPoly = [pts |-> <<>>, d |-> 1] /\ iteration = 0 /\ hasOverlap = FALSE

FnIdle == fnArgs = <<>> /\ fnResult = <<>> /\ fnpc = "idle" /\ LoopIdle

\* The values of useState in App and Canvas before anything has happened, the
\* initial value of dxfHandleCounter, and no object allocated.
NoPolyDraw == [isActive |-> FALSE, points |-> <<>>]
NoDrag == [isDragging |-> FALSE]

SheetIdle == sheetShapes = <<>> /\ history = <<>> /\ historyIndex = -1

CanvasIdle ==
    polyDraw = NoPolyDraw /\ dragState = NoDrag /\ scale = 1
    /\ allowOutsideDraw = FALSE /\ preventOverlap = FALSE

DxfIdle == dxfHandleCounter = 100 /\ dxfOutputs = <<>>

AppIdle == SheetIdle /\ CanvasIdle /\ DxfIdle /\ heap = <<>>

DrawInit ==
    /\ OverlapIdle
    /\ SnapIdle
    /\ CalIdle
    /\ FnIdle
    /\ AppIdle
    /\ \/ \E n \in 3..MaxRingLen :
              ring \in [1..n -> GridPoints] /\ Distinct(ring)
       \/ ring \in {SquareRing, BowtieRing}
    /\ drawn = 0
    /\ flag = FALSE
    /\ flagged = FALSE
    /\ dpc = "drawing"

\* One call made while appending: checkPolygonSelfIntersection(prefix, next)
\* with prefix the first `drawn` vertices and next the following one.
AppendVertex ==
    /\ dpc = "drawing"
    /\ drawn < Len(ring)
    /\ LET r == checkPolygonSelfIntersection(SubSeq(ring, 1, drawn), ring[drawn + 1])
       IN  /\ flag' = r
           /\ flagged' = (flagged \/ r)
    /\ drawn' = drawn + 1
    /\ UNCHANGED <<ring, dpc, overlapVars, snapVars, calVars, fnVars, appVars>>

\* The closing call of finishPolygon: checkPolygonSelfIntersection(points, points[0]).
ClosingCall ==
    /\ dpc = "drawing"
    /\ drawn = Len(ring)
    /\ flag' = checkPolygonSelfIntersection(ring, ring[1])
    /\ flagged' = flagged
    /\ dpc' = "closed"
    /\ UNCHANGED <<ring, drawn, overlapVars, snapVars, calVars, fnVars, appVars>>

DrawNext == AppendVertex \/ ClosingCall

SpecDraw == DrawInit /\ [][DrawNext]_vars

\* ------------------------------------------------------- overlap harness
\* Axis-aligned rectangles (x1,y1),(x2,y1),(x2,y2),(x1,y2) with x1 < x2 and
\* y1 < y2.  Coordinates are in half units, so that the unit squares offset
\* by (0.5, 0) are the squares of side 2 offset by (1, 0).  The x coordinates
\* also take values near Far, which gives rectangles thousands of units wide
\* next to rectangles a few units wide.
RectXs == 0..(MaxCoord + 1) \cup {Far + i : i \in 0..MaxCoord}
RectYs == 0..MaxCoord

Rect(x1, y1, x2, y2) == <<Pt(x1, y1), Pt(x2, y1), Pt(x2, y2), Pt(x1, y2)>>

Rects ==
    {Rect(x1, y1, x2, y2) : x1 \in RectXs, x2 \in RectXs, y1 \in RectYs, y2 \in RectYs}

ProperRects == {r \in Rects : r[1].x < r[3].x /\ r[1].y < r[3].y}

\* Triangles with non-collinear grid vertices, listed from the
\* lexicographically least vertex on, in both windings.
LexLess(p, q) == p.x < q.x \/ (p.x = q.x /\ p.y < q.y)

IsTriangle(t) ==
    /\ orientation(t[1], t[2], t[3]) # 0
    /\ LexLess(t[1], t[2]) /\ LexLess(t[1], t[3])

\* The static triangles offered: those with a vertex at (1,1), in the
\* counter-clockwise winding (orientation 2).
IsStaticTriangle(t) ==
    /\ IsTriangle(t)
    /\ orientation(t[1], t[2], t[3]) = 2
    /\ \E i \in 1..3 : t[i] = Pt(1, 1)

OverlapInit ==
    /\ DrawIdle
    /\ SnapIdle
    /\ CalIdle
    /\ FnIdle
    /\ AppIdle
    /\ \/ movingPoly \in ProperRects /\ staticPoly \in ProperRects
       \/ /\ movingPoly \in [1..3 -> GridPoints] /\ IsTriangle(movingPoly)
          /\ staticPoly \in [1..3 -> GridPoints] /\ IsStaticTriangle(staticPoly)
    /\ hit = FALSE /\ mtv = NullVec /\ moved = [pts |-> <<>>, d |-> 1]
    /\ movedHit = FALSE
    /\ opc = "input"

\* The overlap test and the MTV of the pair, as resolveAllOverlaps calls them.
TestOverlap ==
    /\ opc = "input"
    /\ hit' = doPolygonsIntersect(movingPoly, staticPoly)
    /\ mtv' = calculateMTV(movingPoly, staticPoly)
    /\ opc' = "tested"
    /\ UNCHANGED <<movingPoly, staticPoly, moved, movedHit, drawVars, snapVars, calVars, fnVars, appVars>>

ScaleUp(poly, k) == [i \in 1..Len(poly) |-> Pt(k * poly[i].x, k * poly[i].y)]

\* currentPoly.map(p => ({x: p.x + mtv.x, y: p.y + mtv.y})), in units of 1/d.
Translate(poly, v) ==
    [pts |-> [i \in 1..Len(poly) |-> Pt(v.d * poly[i].x + v.x, v.d * poly[i].y + v.y)],
     d |-> v.d]

\* The translation by a non-null MTV, followed by the overlap test of the
\* translated polygon (both polygons taken in units of 1/d).
ApplyMTV ==
    /\ opc = "tested"
    /\ ~ mtv.isNull
    /\ moved' = Translate(movingPoly, mtv)
    /\ movedHit' = doPolygonsIntersect(moved'.pts, ScaleUp(staticPoly, mtv.d))
    /\ opc' = "moved"
    /\ UNCHANGED <<movingPoly, staticPoly, hit, mtv, drawVars, snapVars, calVars, fnVars, appVars>>

OverlapNext == TestOverlap \/ ApplyMTV

SpecOverlap == OverlapInit /\ [][OverlapNext]_vars

\* ---------------------------------------------------------- snap harness
\* Points on the grid 0..MaxCoord+1, rectangles with a corner at (1,1), a
\* slanted triangle, and axis systems along x and along y.
SnapCoords == 0..(MaxCoord + 1)
SnapPoints == {Pt(x, y) : x \in SnapCoords, y \in SnapCoords}
SnapRects == {Rect(1, 1, x2, y2) : x2 \in 2..(MaxCoord + 1), y2 \in 2..(MaxCoord + 1)}
SlantTriangle == <<Pt(0, 0), Pt(3, 1), Pt(1, 3)>>

Hidden(shape) == [shape EXCEPT !.visible = FALSE]
Locked(shape) == [shape EXCEPT !.locked = TRUE]
WithAxis(shape, config) ==
    [shape EXCEPT !.hasAxisConfig = TRUE, !.axisConfig = config]

\* calculateSnapCorrection: one or two moving points, one rectangle (of a
\* type that takes part, or a line, which does not), and possibly the
\* triangle after it.
CorrectionInit ==
    /\ DrawIdle /\ OverlapIdle /\ CalIdle /\ FnIdle /\ AppIdle
    /\ \/ \E p \in SnapPoints : snPoints = <<p>>
       \/ \E p \in SnapPoints, q \in SnapPoints :
              LexLess(p, q) /\ snPoints = <<p, q>>
    /\ \E r \in SnapRects, t \in {"rectangle", "line"} :
           \/ snShapes = <<MkShape(t, r)>>
           \/ \E t2 \in {"polygon", "triangle"} :
                  snShapes = <<MkShape(t, r), MkShape(t2, SlantTriangle)>>
    /\ snThreshold \in 0..MaxThreshold
    /\ snGrid = NoGrid /\ snPpm = PpmNull /\ snCorrection = NoCorrection
    /\ snGridPoint = NoPoint /\ snClosest = NoPoint
    /\ snpc = "input"

SnapCorrect ==
    /\ snpc = "input"
    /\ snCorrection' = calculateSnapCorrection(snPoints, snShapes, snThreshold)
    /\ snpc' = "corrected"
    /\ UNCHANGED <<snPoints, snShapes, snThreshold, snGrid, snPpm, snGridPoint,
                   snClosest, drawVars, overlapVars, calVars, fnVars, appVars>>

SpecSnapCorrection == CorrectionInit /\ [][SnapCorrect]_vars

\* getClosestGridPoint: grid steps around the floor of 2 pixels, with and
\* without a calibration.
GridSizes == {-1000, 0, 1, 2, 3, 5, 1999, 2000, 2500}
GridPpms == {PpmNull, Ppm(FInt(0)), Ppm(FInt(1)), Ppm(FInt(500)), Ppm(FInt(1000))}
GridTargets == {Pt(x, y) : x \in (-2)..(MaxCoord + 3), y \in 0..MaxCoord}

GridInit ==
    /\ DrawIdle /\ OverlapIdle /\ CalIdle /\ FnIdle /\ AppIdle
    /\ \E p \in GridTargets : snPoints = <<p>>
    /\ snShapes = <<>> /\ snThreshold = 0
    /\ \E v \in BOOLEAN, sz \in GridSizes, ox \in {0, 1}, oy \in {0, -1} :
           snGrid = [present |-> TRUE,
                     config |-> [visible |-> v, sizeMm |-> sz,
                                 offsetX |-> ox, offsetY |-> oy]]
    /\ snPpm \in GridPpms
    /\ snCorrection = NoCorrection
    /\ snGridPoint = NoPoint /\ snClosest = NoPoint
    /\ snpc = "input"

GridSnap ==
    /\ snpc = "input"
    /\ snGridPoint' = getClosestGridPoint(ToR(snPoints[1]), snGrid.config, snPpm)
    /\ snpc' = "gridded"
    /\ UNCHANGED <<snPoints, snShapes, snThreshold, snGrid, snPpm, snCorrection,
                   snClosest, drawVars, overlapVars, calVars, fnVars, appVars>>

SpecGrid == GridInit /\ [][GridSnap]_vars

\* getClosestSnapPoint: a rectangle (plain, hidden, locked, or a line), an
\* axis shape (along x, along y, or without axisConfig), and the grid
\* argument left out, invisible, or visible.
AxisAlongX == WithAxis(MkShape("axis", <<Pt(0, 0), Pt(2, 0)>>),
                       AxisConfig(2, 2, <<49>>, 3, FALSE, FALSE))
AxisAlongY == WithAxis(MkShape("axis", <<Pt(3, 0), Pt(3, 1)>>),
                       AxisConfig(1, 3, <<65>>, 2, TRUE, FALSE))
AxisShapes == {AxisAlongX, AxisAlongY, MkShape("axis", <<Pt(0, 0), Pt(2, 0)>>)}

RectVariants(r) ==
    {MkShape("rectangle", r), Hidden(MkShape("rectangle", r)),
     Locked(MkShape("square", r)), MkShape("line", r)}

SnapGrids ==
    {NoGrid}
    \cup {[present |-> TRUE,
           config |-> [visible |-> v, sizeMm |-> sz, offsetX |-> 0, offsetY |-> 0]] :
             v \in BOOLEAN, sz \in {1, 2}}

SnapPointInit ==
    /\ DrawIdle /\ OverlapIdle /\ CalIdle /\ FnIdle /\ AppIdle
    /\ \E p \in SnapPoints : snPoints = <<p>>
    /\ \E r \in SnapRects :
         \E s1 \in RectVariants(r), s2 \in AxisShapes : snShapes = <<s1, s2>>
    /\ snThreshold \in 0..MaxThreshold
    /\ snGrid \in SnapGrids
    /\ snPpm \in {PpmNull, Ppm(FInt(2000))}
    /\ snCorrection = NoCorrection
    /\ snGridPoint = NoPoint /\ snClosest = NoPoint
    /\ snpc = "input"

SnapToPoint ==
    /\ snpc = "input"
    /\ snClosest' = getClosestSnapPoint(ToR(snPoints[1]), snShapes, snThreshold,
                                        snGrid.present, snGrid.config, snPpm)
    /\ snpc' = "snapped"
    /\ UNCHANGED <<snPoints, snShapes, snThreshold, snGrid, snPpm, snCorrection,
                   snGridPoint, drawVars, overlapVars, calVars, fnVars, appVars>>

SpecSnapPoint == SnapPointInit /\ [][SnapToPoint]_vars

\* ------------------------------------------------------------ calibration
\* pixelsPerMeter of the App: the two-point scale when two coordinate
\* references with distinct world positions exist, else the ruler scale.
\* Lengths are exact for the reference positions of the runs, which lie on
\* the corners of a 3 by 4 rectangle.
ISqrt(n) == CHOOSE r \in 0..n : r * r = n

PointDistance(p, q) ==
    ISqrt((q.x - p.x) * (q.x - p.x) + (q.y - p.y) * (q.y - p.y))

\* calibrationData.reduce((sum, item) => sum + item.pixels, 0), and meters
RECURSIVE ReducePixels(_, _, _), ReduceMeters(_, _, _)
ReducePixels(data, k, sum) ==
    IF k > Len(data) THEN sum ELSE ReducePixels(data, k + 1, FAdd(sum, data[k].pixels))
ReduceMeters(data, k, sum) ==
    IF k > Len(data) THEN sum ELSE ReduceMeters(data, k + 1, FAdd(sum, data[k].meters))

\* The mean of the per-sample ratios pixels / meters (a sample of 0 meters
\* counted as ratio 0), in place of the ratio of the sums.
RECURSIVE ReduceRatios(_, _, _)
ReduceRatios(data, k, sum) ==
    IF k > Len(data) THEN sum
    ELSE ReduceRatios(data, k + 1,
             IF data[k].meters = FInt(0) THEN sum
             ELSE FAdd(sum, FDiv(data[k].pixels, data[k].meters)))

pixelsPerMeterOfRatios ==
    IF Len(coordRefs) = 2
       /\ PointDistance(coordRefs[1].world, coordRefs[2].world) > 0
    THEN Ppm(Frac(PointDistance(coordRefs[1].pixel, coordRefs[2].pixel),
                  PointDistance(coordRefs[1].world, coordRefs[2].world)))
    ELSE IF Len(calibrationData) > 0
    THEN IF FLess(FInt(0), ReduceMeters(calibrationData, 1, FInt(0)))
         THEN Ppm(FDiv(ReduceRatios(calibrationData, 1, FInt(0)),
                       FInt(Len(calibrationData))))
         ELSE PpmNull
    ELSE PpmNull

pixelsPerMeter ==
    IF Len(coordRefs) = 2
       /\ PointDistance(coordRefs[1].world, coordRefs[2].world) > 0
    THEN Ppm(Frac(PointDistance(coordRefs[1].pixel, coordRefs[2].pixel),
                  PointDistance(coordRefs[1].world, coordRefs[2].world)))
    ELSE IF Len(calibrationData) > 0
    THEN LET totalPixels == ReducePixels(calibrationData, 1, FInt(0))
             totalMeters == ReduceMeters(calibrationData, 1, FInt(0))
         IN  IF FLess(FInt(0), totalMeters) THEN Ppm(FDiv(totalPixels, totalMeters))
             ELSE PpmNull
    ELSE PpmNull

\* const isCalibrated = !!pixelsPerMeter
isCalibrated == Truthy(pixelsPerMeter)

\* A sheet starts with no samples and no references.
CalInit ==
    /\ DrawIdle /\ OverlapIdle /\ SnapIdle /\ FnIdle /\ AppIdle
    /\ calibrationData = <<>>
    /\ coordRefs = <<>>
    /\ pendingMeasurementPixels = <<>>

\* Values offered by the runs: measured pixel lengths, millimetres typed
\* into the dialogs (0 and -1000 are rejected by them), reference positions.
PixelLengths == {0, 3, 8}
TypedMms == {-1000, 0, 500, 2000}
RefPoints == {Pt(0, 0), Pt(3, 4)}
RefWorlds == {Pt(0, 0), Pt(0, 4)}

RemoveAt(seq, idx) ==
    [k \in 1..(Len(seq) - 1) |-> IF k < idx THEN seq[k] ELSE seq[k + 1]]

\* handleMouseUp in draw_calibrate mode: onMeasure(dist)
Measure ==
    /\ \E px \in PixelLengths : pendingMeasurementPixels' = <<px>>
    /\ UNCHANGED <<calibrationData, coordRefs, drawVars, overlapVars, snapVars, fnVars, appVars>>

\* CalibrationModal handleSubmit and the App's onConfirm(meters)
ConfirmMeasurement ==
    /\ pendingMeasurementPixels # <<>>
    /\ Len(calibrationData) < MaxSamples
    /\ \E valMm \in TypedMms :
         /\ valMm > 0
         /\ calibrationData' =
                Append(calibrationData,
                       [pixels |-> FInt(pendingMeasurementPixels[1]),
                        meters |-> Frac(valMm, 1000)])
    /\ pendingMeasurementPixels' = <<>>
    /\ UNCHANGED <<coordRefs, drawVars, overlapVars, snapVars, fnVars, appVars>>

\* CalibrationModal onCancel
CancelMeasurement ==
    /\ pendingMeasurementPixels # <<>>
    /\ pendingMeasurementPixels' = <<>>
    /\ UNCHANGED <<calibrationData, coordRefs, drawVars, overlapVars, snapVars, fnVars, appVars>>

\* CalibrationListModal handleSave and the App's onUpdate(index, meters)
UpdateSample ==
    /\ \E index \in 1..Len(calibrationData), valMm \in TypedMms :
         /\ valMm > 0
         /\ calibrationData' =
                [calibrationData EXCEPT ![index].meters = Frac(valMm, 1000)]
    /\ UNCHANGED <<coordRefs, pendingMeasurementPixels, drawVars, overlapVars, snapVars, fnVars, appVars>>

\* The App's onDelete(index) of the calibration list
DeleteSample ==
    /\ \E index \in 1..Len(calibrationData) :
         calibrationData' = RemoveAt(calibrationData, index)
    /\ UNCHANGED <<coordRefs, pendingMeasurementPixels, drawVars, overlapVars, snapVars, fnVars, appVars>>

\* handleCreateSheet('blank', {width, height, unit}): the new sheet becomes
\* the active one, with one sample when the unit is m or mm.
CreateBlankSheet ==
    /\ \E width \in {0, 2}, height \in {1, 4}, unit \in {"m", "mm", "px"} :
         LET canvasW == IF width > height THEN FInt(14000)
                        ELSE Frac(14000 * width, height)
             metersW == IF unit = "m" THEN FInt(width) ELSE Frac(width, 1000)
         IN  calibrationData' =
                IF unit \in {"m", "mm"}
                THEN <<[pixels |-> FInt(FRound(canvasW)), meters |-> metersW]>>
                ELSE <<>>
    /\ coordRefs' = <<>>
    /\ UNCHANGED <<pendingMeasurementPixels, drawVars, overlapVars, snapVars, fnVars, appVars>>

\* onCoordClick (only with fewer than two references) and the coordinate
\* dialog's onConfirm for a new point
AddCoordRef ==
    /\ Len(coordRefs) < 2
    /\ \E p \in RefPoints, w \in RefWorlds :
         coordRefs' = Append(coordRefs,
                             [id |-> Len(coordRefs) + 1, pixel |-> p, world |-> w])
    /\ UNCHANGED <<calibrationData, pendingMeasurementPixels, drawVars, overlapVars, snapVars, fnVars, appVars>>

\* onCoordMove(idx, p)
MoveCoordRef ==
    /\ \E idx \in 1..Len(coordRefs), p \in RefPoints :
         coordRefs' = [coordRefs EXCEPT ![idx].pixel = p]
    /\ UNCHANGED <<calibrationData, pendingMeasurementPixels, drawVars, overlapVars, snapVars, fnVars, appVars>>

\* the coordinate dialog's onConfirm for an edited point
EditCoordRef ==
    /\ \E idx \in 1..Len(coordRefs), w \in RefWorlds :
         coordRefs' = [coordRefs EXCEPT ![idx].world = w]
    /\ UNCHANGED <<calibrationData, pendingMeasurementPixels, drawVars, overlapVars, snapVars, fnVars, appVars>>

\* the coordinate dialog's onDelete
DeleteCoordRef ==
    /\ \E idx \in 1..Len(coordRefs) : coordRefs' = RemoveAt(coordRefs, idx)
    /\ UNCHANGED <<calibrationData, pendingMeasurementPixels, drawVars, overlapVars, snapVars, fnVars, appVars>>

CalNext ==
    \/ Measure \/ ConfirmMeasurement \/ CancelMeasurement
    \/ UpdateSample \/ DeleteSample \/ CreateBlankSheet
    \/ AddCoordRef \/ MoveCoordRef \/ EditCoordRef \/ DeleteCoordRef

SpecCalibration == CalInit /\ [][CalNext]_vars

\* ---------------------------------------------------- transformPointToWorld
\* A world position {x, y, z?}: hasZ is false when z is undefined.
World(x, y) == [x |-> x, y |-> y, hasZ |-> FALSE, z |-> 0]
WorldZ(x, y, z) == [x |-> x, y |-> y, hasZ |-> TRUE, z |-> z]

NoZ == [hasZ |-> FALSE, z |-> FInt(0)]
SomeZ(f) == [hasZ |-> TRUE, z |-> f]

\* The rotation by angleW - anglePx followed by the scaling by
\* distW / distPx is the multiplication by cr + i*sr with
\*   cr = cos(rotation) * scale = (dWx*dPx + dWy*dPy) / (dPx^2 + dPy^2)
\*   sr = sin(rotation) * scale = (dWy*dPx - dWx*dPy) / (dPx^2 + dPy^2)
\* (both 0 when distW = 0, where scale = 0), which keeps the result exact.
\* A variant with the scale but no rotation stands before it.
RotationScaleUnrotated(dPx, dPy, dWx, dWy) ==
    [cr |-> Frac(PointDistance(Pt(0, 0), Pt(dWx, dWy)),
                 PointDistance(Pt(0, 0), Pt(dPx, dPy))),
     sr |-> FInt(0)]

RotationScale(dPx, dPy, dWx, dWy) ==
    [cr |-> Frac(dWx * dPx + dWy * dPy, dPx * dPx + dPy * dPy),
     sr |-> Frac(dWy * dPx - dWx * dPy, dPx * dPx + dPy * dPy)]

\* const t = lenSq > 0 ? dot / lenSq : 0, and a variant clamped to [0, 1]
ProjectionTClamped(dot, lenSq) ==
    IF lenSq > 0 THEN FMax(FInt(0), FMin(FInt(1), Frac(dot, lenSq))) ELSE FInt(0)

ProjectionT(dot, lenSq) == IF lenSq > 0 THEN Frac(dot, lenSq) ELSE FInt(0)

\* transformPointToWorld(pixelPoint, ref1, ref2)
transformPointToWorld(pixelPoint, ref1, ref2) ==
    LET dPx == ref2.pixel.x - ref1.pixel.x
        dPy == ref2.pixel.y - ref1.pixel.y
        dWx == ref2.world.x - ref1.world.x
        dWy == ref2.world.y - ref1.world.y
    IN  IF dPx * dPx + dPy * dPy = 0 THEN [x |-> FInt(0), y |-> FInt(0), z |-> NoZ]
        ELSE LET rs == RotationScale(dPx, dPy, dWx, dWy)
                 relX == pixelPoint.x - ref1.pixel.x
                 relY == pixelPoint.y - ref1.pixel.y
                 rotatedX == FSub(FMul(FInt(relX), rs.cr), FMul(FInt(relY), rs.sr))
                 rotatedY == FAdd(FMul(FInt(relX), rs.sr), FMul(FInt(relY), rs.cr))
                 z == IF ref1.world.hasZ /\ ref2.world.hasZ
                      THEN LET dot == relX * dPx + relY * dPy
                               lenSq == dPx * dPx + dPy * dPy
                               t == ProjectionT(dot, lenSq)
                           IN  SomeZ(FAdd(FInt(ref1.world.z),
                                          FMul(t, FInt(ref2.world.z - ref1.world.z))))
                      ELSE IF ref1.world.hasZ THEN SomeZ(FInt(ref1.world.z))
                      ELSE IF ref2.world.hasZ THEN SomeZ(FInt(ref2.world.z))
                      ELSE NoZ
             IN  [x |-> FAdd(rotatedX, FInt(ref1.world.x)),
                  y |-> FAdd(rotatedY, FInt(ref1.world.y)),
                  z |-> z]

\* `world.z || dflt`: dflt when z is undefined or 0.
ZOr(z, dflt) == IF z.hasZ /\ z.z # FInt(0) THEN z.z ELSE dflt

\* A variant that takes the world branch only for distinct pixel positions.
UsesWorldDistinct(useWorldCoordinates, refs) ==
    useWorldCoordinates /\ Len(refs) = 2 /\ refs[1].pixel # refs[2].pixel

\* The world branch of the three transformPoint closures, taken whenever
\* useWorldCoordinates is set and there are two references.
UsesWorld(useWorldCoordinates, refs) == useWorldCoordinates /\ Len(refs) = 2

\* exportToDxf: transformPoint
DxfTransformPoint(p, refs, ppm, useWorldCoordinates) ==
    IF UsesWorld(useWorldCoordinates, refs)
    THEN LET world == transformPointToWorld(p, refs[1], refs[2])
         IN  [x |-> world.x, y |-> world.y, z |-> ZOr(world.z, FInt(0))]
    ELSE IF Truthy(ppm)
    THEN [x |-> FDiv(FInt(p.x), ppm.v), y |-> FDiv(FInt(-p.y), ppm.v), z |-> FInt(0)]
    ELSE [x |-> FInt(p.x), y |-> FInt(-p.y), z |-> FInt(0)]

\* exportToGeoJson: transformPoint
GeoJsonTransformPoint(p, refs, ppm, useWorldCoordinates) ==
    IF UsesWorld(useWorldCoordinates, refs)
    THEN LET world == transformPointToWorld(p, refs[1], refs[2])
         IN  [x |-> world.x, y |-> world.y]
    ELSE IF Truthy(ppm)
    THEN [x |-> FDiv(FInt(p.x), ppm.v), y |-> FDiv(FInt(-p.y), ppm.v)]
    ELSE [x |-> FInt(p.x), y |-> FInt(-p.y)]

\* exportToIfc: transformPoint
IfcTransformPoint(p, refs, ppm, useWorldCoordinates, floorElevation) ==
    IF UsesWorld(useWorldCoordinates, refs)
    THEN LET world == transformPointToWorld(p, refs[1], refs[2])
         IN  [x |-> world.x, y |-> world.y, z |-> ZOr(world.z, FInt(floorElevation))]
    ELSE IF Truthy(ppm)
    THEN [x |-> FDiv(FInt(p.x), ppm.v), y |-> FDiv(FInt(-p.y), ppm.v),
          z |-> FInt(floorElevation)]
    ELSE [x |-> Frac(p.x, 1000), y |-> Frac(-p.y, 1000), z |-> FInt(floorElevation)]

\* --------------------------------------------------------- export harness
\* handleExport of the App on a sheet with zero, one or two coordinate
\* references and zero to two ruler samples: the point mappers applied to
\* two distinct pixel points, with the App's pixelsPerMeter.  Reference
\* pixels and worlds are chosen with integer mutual distances.
ExRefPixels == {Pt(0, 0), Pt(100, 0), Pt(0, 75)}
ExRefWorlds ==
    {World(0, 0), World(10, 0), World(0, 24), WorldZ(0, 0, 3), WorldZ(10, 0, 0),
     WorldZ(0, 24, 7)}
ExRefs == {[id |-> i, pixel |-> px, world |-> w] :
             i \in {1, 2}, px \in ExRefPixels, w \in ExRefWorlds}
ExSamples ==
    {<<>>, <<[pixels |-> FInt(8), meters |-> FInt(2)]>>,
     <<[pixels |-> FInt(3), meters |-> Frac(1, 2)], [pixels |-> FInt(8), meters |-> FInt(2)]>>}
ExPointPairs ==
    {<<Pt(50, 0), Pt(100, 100)>>, <<Pt(0, 0), Pt(100, 0)>>, <<Pt(0, 0), Pt(3, 4)>>}

ExportInit ==
    /\ DrawIdle /\ OverlapIdle /\ SnapIdle
    /\ calibrationData \in ExSamples
    /\ \/ coordRefs = <<>>
       \/ \E r \in ExRefs : r.id = 1 /\ coordRefs = <<r>>
       \/ \E r1 \in ExRefs, r2 \in ExRefs :
              r1.id = 1 /\ r2.id = 2 /\ coordRefs = <<r1, r2>>
    /\ pendingMeasurementPixels = <<>>
    /\ \E pts \in ExPointPairs, u \in BOOLEAN :
           fnArgs = [points |-> pts, useWorldCoordinates |-> u]
    /\ fnResult = <<>>
    /\ fnpc = "input"
    /\ LoopIdle
    /\ AppIdle

ExportDxf ==
    /\ fnpc = "input"
    /\ fnResult' = [k \in 1..Len(fnArgs.points) |->
                      DxfTransformPoint(fnArgs.points[k], coordRefs, pixelsPerMeter,
                                        fnArgs.useWorldCoordinates)]
    /\ fnpc' = "dxf"
    /\ dxfHandleCounter' = 100
    /\ UNCHANGED <<fnArgs, loopVars, drawVars, overlapVars, snapVars, calVars,
                   sheetVars, canvasVars, dxfOutputs, heap>>

ExportGeoJson ==
    /\ fnpc = "input"
    /\ fnResult' = [k \in 1..Len(fnArgs.points) |->
                      GeoJsonTransformPoint(fnArgs.points[k], coordRefs, pixelsPerMeter,
                                            fnArgs.useWorldCoordinates)]
    /\ fnpc' = "geojson"
    /\ UNCHANGED <<fnArgs, loopVars, drawVars, overlapVars, snapVars, calVars, appVars>>

ExportIfc ==
    /\ fnpc = "input"
    /\ fnResult' = [k \in 1..Len(fnArgs.points) |->
                      IfcTransformPoint(fnArgs.points[k], coordRefs, pixelsPerMeter,
                                        fnArgs.useWorldCoordinates, 0)]
    /\ fnpc' = "ifc"
    /\ UNCHANGED <<fnArgs, loopVars, drawVars, overlapVars, snapVars, calVars, appVars>>

ExportNext == ExportDxf \/ ExportGeoJson \/ ExportIfc

SpecExport == ExportInit /\ [][ExportNext]_vars

\* ------------------------------------------------------ DXF handle counter
MaxExports == 3
MaxHandles == 12

\* Number.prototype.toString(16): the digits 0-9 and a-f, as character codes.
HexDigit(v) == IF v < 10 THEN 48 + v ELSE 97 + (v - 10)

RECURSIVE toString16(_)
toString16(n) ==
    IF n < 16 THEN <<HexDigit(n)>>
    ELSE Append(toString16(n \div 16), HexDigit(n % 16))

\* String.prototype.toUpperCase on the characters a-z.
toUpperCase(str) ==
    [i \in 1..Len(str) |-> IF 97 <= str[i] /\ str[i] <= 122 THEN str[i] - 32 ELSE str[i]]

\* A variant of getHandle that does not advance the counter.
getHandleStuck(counter) ==
    [handle |-> toUpperCase(toString16(counter)), counter |-> counter]

\* getHandle: `(dxfHandleCounter++).toString(16).toUpperCase()`, as the
\* handle returned and the counter left behind.
getHandle(counter) ==
    [handle |-> toUpperCase(toString16(counter)), counter |-> counter + 1]

\* resetHandleCounter
resetHandleCounter == 100

\* The first k handles issued from a counter value, in order.
RECURSIVE HandlesFrom(_, _)
HandlesFrom(counter, k) ==
    IF k = 0 THEN <<>>
    ELSE <<getHandle(counter).handle>> \o HandlesFrom(getHandle(counter).counter, k - 1)

\* The part of exportToDxf that depends on the sheet: the visible shapes
\* (`s.visible !== false`), each with its type and its transformed points.
\* No statement of exportToDxf calls getHandle, reads a clock or draws a
\* random number.
VisibleShapes(shapeList) == SelectSeq(shapeList, LAMBDA sh : sh.visible)

DxfEntities(options) ==
    LET vis == VisibleShapes(options.sheet.shapes)
    IN  [k \in 1..Len(vis) |->
            [type |-> vis[k].type,
             points |-> [j \in 1..Len(vis[k].points) |->
                           DxfTransformPoint(vis[k].points[j], options.sheet.coordRefs,
                                             options.pixelsPerMeter,
                                             options.useWorldCoordinates)]]]

DxfShape(t, v, pts) == [type |-> t, visible |-> v, points |-> pts]

DxfSheets ==
    {[shapes |-> sh, coordRefs |-> refs] :
        sh \in {<<>>,
                <<DxfShape("line", TRUE, <<Pt(0, 0), Pt(100, 0)>>)>>,
                <<DxfShape("polygon", TRUE, <<Pt(0, 0), Pt(100, 0), Pt(0, 75)>>),
                  DxfShape("line", FALSE, <<Pt(0, 0), Pt(0, 75)>>)>>},
        refs \in {<<>>,
                  <<[id |-> 1, pixel |-> Pt(0, 0), world |-> World(0, 0)],
                    [id |-> 2, pixel |-> Pt(100, 0), world |-> World(50, 0)]>>}}

DxfOptions ==
    {[sheet |-> sh, pixelsPerMeter |-> PpmNull, useWorldCoordinates |-> u] :
        sh \in DxfSheets, u \in BOOLEAN}

DxfRunsInit ==
    /\ DrawIdle /\ OverlapIdle /\ SnapIdle /\ CalIdle /\ FnIdle
    /\ SheetIdle /\ CanvasIdle /\ heap = <<>>
    /\ dxfHandleCounter = 100
    /\ dxfOutputs = <<>>

\* exportToDxf(options): the counter is reset, then the output is built.
ExportToDxf ==
    /\ Len(dxfOutputs) < MaxExports
    /\ \E options \in DxfOptions :
          dxfOutputs' = Append(dxfOutputs, [options |-> options,
                                            output |-> DxfEntities(options)])
    /\ dxfHandleCounter' = resetHandleCounter
    /\ UNCHANGED <<drawVars, overlapVars, snapVars, calVars, fnVars,
                   sheetVars, canvasVars, heap>>

DxfRunsNext == ExportToDxf

SpecDxfRuns == DxfRunsInit /\ [][DxfRunsNext]_vars

\* transformPointToWorld on its own: every pair of references, and query
\* points on, between and beyond the reference pixels.
TransformQueries == ExRefPixels \cup {Pt(50, 0), Pt(100, 100), Pt(200, 0)}

TransformInit ==
    /\ DrawIdle /\ OverlapIdle /\ SnapIdle /\ CalIdle
    /\ \E q \in TransformQueries, r1 \in ExRefs, r2 \in ExRefs :
           /\ r1.id = 1 /\ r2.id = 2
           /\ fnArgs = [pixelPoint |-> q, ref1 |-> r1, ref2 |-> r2]
    /\ fnResult = <<>>
    /\ fnpc = "input"
    /\ LoopIdle
    /\ AppIdle

TransformPoint ==
    /\ fnpc = "input"
    /\ fnResult' = transformPointToWorld(fnArgs.pixelPoint, fnArgs.ref1, fnArgs.ref2)
    /\ fnpc' = "transformPointToWorld"
    /\ UNCHANGED <<fnArgs, loopVars, drawVars, overlapVars, snapVars, calVars, appVars>>

SpecTransform == TransformInit /\ [][TransformPoint]_vars

\* getAxisSystemPoints on its own: start labels "A", "5", "", "A1", "-3",
\* " 7", "0xA" and "x"; counts around 0, small, and around the cap of 100,
\* or NaN; spacings and lengths on both sides of each guard.
MaxCount == 3

AxStartLabels ==
    {<<65>>, <<53>>, <<>>, <<65, 49>>, <<45, 51>>, <<32, 55>>,
     <<48, 120, 65>>, <<120>>}

AxCounts == (-1..MaxCount) \cup {MaxLines - 1, MaxLines, MaxLines + 1}

AxGeometries ==
    {[spacingMm |-> 2, lengthMm |-> 3, ppm |-> PpmNull],
     [spacingMm |-> 6000, lengthMm |-> 10000, ppm |-> Ppm(FInt(1000))],
     [spacingMm |-> 50, lengthMm |-> 10000, ppm |-> Ppm(FInt(1))],
     [spacingMm |-> 100, lengthMm |-> 10000, ppm |-> Ppm(FInt(1))],
     [spacingMm |-> 2, lengthMm |-> 50000, ppm |-> PpmNull],
     [spacingMm |-> 2, lengthMm |-> 50001, ppm |-> PpmNull],
     [spacingMm |-> 0, lengthMm |-> 3, ppm |-> PpmNull],
     [spacingMm |-> 2, lengthMm |-> 0, ppm |-> PpmNull],
     [spacingMm |-> -2, lengthMm |-> -3, ppm |-> PpmNull]}

AxDirections == {Pt(1, 0), Pt(3, 4), Pt(0, 0)}

AxConfigs ==
    {NoAxisConfig}
    \cup {AxisConfig(g.spacingMm, c, l, g.lengthMm, b, r) :
             g \in AxGeometries, c \in AxCounts, l \in AxStartLabels,
             b \in BOOLEAN, r \in BOOLEAN}
    \cup {NaNCount(AxisConfig(g.spacingMm, 0, l, g.lengthMm, b, FALSE)) :
             g \in AxGeometries, l \in {<<65>>}, b \in BOOLEAN}

AxisInit ==
    /\ DrawIdle /\ OverlapIdle /\ SnapIdle /\ CalIdle
    /\ \E d \in AxDirections, c \in AxConfigs, g \in AxGeometries :
           /\ c.defined => c.spacingMm = g.spacingMm /\ c.lengthMm = g.lengthMm
           /\ ~c.defined => g = [spacingMm |-> 2, lengthMm |-> 3, ppm |-> PpmNull]
           /\ fnArgs = [start |-> Pt(0, 0), directionPoint |-> d,
                        config |-> c, ppm |-> g.ppm]
    /\ fnResult = <<>>
    /\ fnpc = "input"
    /\ LoopIdle
    /\ AppIdle

AxisSystemPoints ==
    /\ fnpc = "input"
    /\ fnResult' = getAxisSystemPoints(fnArgs.start, fnArgs.directionPoint,
                                       fnArgs.config, fnArgs.ppm)
    /\ fnpc' = "getAxisSystemPoints"
    /\ UNCHANGED <<fnArgs, loopVars, drawVars, overlapVars, snapVars, calVars, appVars>>

SpecAxis == AxisInit /\ [][AxisSystemPoints]_vars

\* ---------------------------------------------------------- getPolygonArea
\* The loop of getPolygonArea after k vertices:
\*   area += points[i].x * points[j].y;  area -= points[j].x * points[i].y
RECURSIVE ShoelaceSum(_, _)
ShoelaceSum(points, k) ==
    IF k = 0 THEN 0
    ELSE LET i == k
             j == NextIdx(k, Len(points))
         IN  ShoelaceSum(points, k - 1)
             + points[i].x * points[j].y - points[j].x * points[i].y

\* A variant of getPolygonArea without Math.abs.
getPolygonAreaSigned(points) ==
    IF Len(points) < 3 THEN FInt(0)
    ELSE Frac(ShoelaceSum(points, Len(points)), 2)

getPolygonArea(points) ==
    IF Len(points) < 3 THEN FInt(0)
    ELSE Frac(Abs(ShoelaceSum(points, Len(points))), 2)

\* ----------------------------------------------------- getPolygonLabelStats
\* getCentroid: (0,0) for no point; otherwise the vertex mean, which is also
\* what the one-point and two-point branches return.
getCentroid(points) ==
    IF Len(points) = 0 THEN RPt(FInt(0), FInt(0))
    ELSE RPt(Frac(SumX(points, Len(points)), Len(points)),
             Frac(SumY(points, Len(points)), Len(points)))

getBoundingBox(points) ==
    LET n == Len(points)
        xs == [i \in 1..n |-> points[i].x]
        ys == [i \in 1..n |-> points[i].y]
    IN  [minX |-> MinOf(xs, n), maxX |-> MaxOf(xs, n),
         minY |-> MinOf(ys, n), maxY |-> MaxOf(ys, n),
         width |-> MaxOf(xs, n) - MinOf(xs, n),
         height |-> MaxOf(ys, n) - MinOf(ys, n)]

\* getPolygonPrimaryAngle: the angle atan2(dir.y, dir.x) of the first edge
\* of maximal length, kept as the edge vector dir; (1, 0) stands for the
\* initial angle 0.  Lengths are compared by their squares.
RECURSIVE PrimaryAngleLoop(_, _, _, _)
PrimaryAngleLoop(points, i, maxLen2, dir) ==
    IF i > Len(points) THEN dir
    ELSE LET p1 == points[i]
             p2 == points[NextIdx(i, Len(points))]
             len2 == (p2.x - p1.x) * (p2.x - p1.x) + (p2.y - p1.y) * (p2.y - p1.y)
         IN  IF len2 > maxLen2
             THEN PrimaryAngleLoop(points, i + 1, len2, Pt(p2.x - p1.x, p2.y - p1.y))
             ELSE PrimaryAngleLoop(points, i + 1, maxLen2, dir)

getPolygonPrimaryAngle(points) == PrimaryAngleLoop(points, 1, 0, Pt(1, 0))

\* while (normAngle > 90) normAngle -= 180; while (normAngle < -90)
\* normAngle += 180: the direction turned by half a turn when it points to
\* the left, so that the angle lies in [-90, 90].
NormDirection(dir) == IF dir.x < 0 THEN Pt(-dir.x, -dir.y) ELSE dir

\* tan(10 degrees) and tan(80 degrees) in millionths.  Both are irrational;
\* no slope of two integers below 1000 lies between the value used and the
\* true one.
Tan10Millionths == 176327
Tan80Millionths == 5671282

\* Math.abs(normAngle) < 10 for the angle of a normalized direction
Within10OfZero(dir) == dir.x > 0 /\ 1000000 * Abs(dir.y) < Tan10Millionths * dir.x

\* Math.abs(Math.abs(normAngle) - 90) < 10
Within10OfRight(dir) ==
    \/ dir.x = 0 /\ dir.y # 0
    \/ dir.x > 0 /\ 1000000 * Abs(dir.y) > Tan80Millionths * dir.x

\* A rotation is a whole number of degrees (0 or -90) or the angle of a
\* direction, kept as the shortest integer vector of that direction.
RotDeg(deg) == [exact |-> TRUE, deg |-> deg, dir |-> Pt(0, 0)]
RotDir(dir) == [exact |-> FALSE, deg |-> 0, dir |-> normalize(dir)]

\* The rotation of the `points.length >= 3` block.
EdgeRotation(points) ==
    LET norm == NormDirection(getPolygonPrimaryAngle(points))
    IN  IF Within10OfZero(norm) THEN RotDeg(0)
        ELSE IF Within10OfRight(norm) THEN RotDeg(-90)
        ELSE RotDir(norm)

\* The square of pointToLineDistance(point, start, end).
pointToLineDistance2(point, start, end) ==
    LET A == FSub(point.x, FInt(start.x))
        B == FSub(point.y, FInt(start.y))
        C == end.x - start.x
        D == end.y - start.y
        dot == FAdd(FMul(A, FInt(C)), FMul(B, FInt(D)))
        lenSq == C * C + D * D
        param == IF lenSq # 0 THEN FDiv(dot, FInt(lenSq)) ELSE FInt(-1)
        near == IF FLess(param, FInt(0)) THEN ToR(start)
                ELSE IF FLess(FInt(1), param) THEN ToR(end)
                ELSE RPt(FAdd(FInt(start.x), FMul(param, FInt(C))),
                         FAdd(FInt(start.y), FMul(param, FInt(D))))
    IN  getDistance2(point, near)

RECURSIVE MinDistToEdge2(_, _, _)
MinDistToEdge2(points, centroid, i) ==
    LET d == pointToLineDistance2(centroid, points[i], points[NextIdx(i, Len(points))])
    IN  IF i = Len(points) THEN d
        ELSE FMin(d, MinDistToEdge2(points, centroid, i + 1))

\* getPolygonLabelStats.  maxFontSize, safeWidth and safeHeight are
\* functions of minDistToEdge alone; the model keeps its square (-1 in
\* the branch that returns the fixed sizes 16, 100, 100).
getPolygonLabelStats(points) ==
    IF Len(points) < 3
    THEN [x |-> getCentroid(points).x, y |-> getCentroid(points).y,
          rotation |-> RotDeg(0), minDistToEdge2 |-> FInt(-1)]
    ELSE LET centroid == getCentroid(points)
             bbox == getBoundingBox(points)
             isVertical == 10 * bbox.height > 12 * bbox.width
             rotation0 == IF isVertical THEN RotDeg(-90) ELSE RotDeg(0)
             rotation == IF Len(points) >= 3 THEN EdgeRotation(points)
                         ELSE rotation0
         IN  [x |-> centroid.x, y |-> centroid.y, rotation |-> rotation,
              minDistToEdge2 |-> MinDistToEdge2(points, centroid, 1)]

\* Point lists of up to MaxPoints points on a 3 x 3 grid, and some longer
\* shapes whose longest edge is within 10 degrees of an axis, or not.
MaxPoints == 4

PolyGrid == {Pt(x, y) : x \in 0..2, y \in 0..2}

RECURSIVE PointLists(_)
PointLists(n) ==
    IF n = 0 THEN {<<>>}
    ELSE PointLists(n - 1)
         \cup {Append(l, q) : l \in {m \in PointLists(n - 1) : Len(m) = n - 1},
                              q \in PolyGrid}

LongShapes ==
    {<<Pt(0, 0), Pt(12, 1), Pt(0, 1)>>, <<Pt(0, 0), Pt(5, 1), Pt(0, 1)>>,
     <<Pt(0, 0), Pt(1, 12), Pt(0, 12)>>, <<Pt(0, 0), Pt(1, 5), Pt(0, 5)>>,
     <<Pt(0, 0), Pt(4, 6), Pt(0, 1)>>, <<Pt(5, 0), Pt(0, 2), Pt(5, 8)>>,
     <<Pt(0, 0), Pt(0, 10), Pt(1, 10), Pt(1, 0)>>,
     <<Pt(0, 0), Pt(10, 0), Pt(10, 1), Pt(0, 1)>>}

PolygonInit ==
    /\ DrawIdle /\ OverlapIdle /\ SnapIdle /\ CalIdle
    /\ \E pts \in PointLists(MaxPoints) \cup LongShapes : fnArgs = [points |-> pts]
    /\ fnResult = <<>>
    /\ fnpc = "input"
    /\ LoopIdle
    /\ AppIdle

PolygonArea ==
    /\ fnpc = "input"
    /\ fnResult' = [area |-> getPolygonArea(fnArgs.points)]
    /\ fnpc' = "getPolygonArea"
    /\ UNCHANGED <<fnArgs, loopVars, drawVars, overlapVars, snapVars, calVars, appVars>>

PolygonLabelStats ==
    /\ fnpc = "input"
    /\ fnResult' = getPolygonLabelStats(fnArgs.points)
    /\ fnpc' = "getPolygonLabelStats"
    /\ UNCHANGED <<fnArgs, loopVars, drawVars, overlapVars, snapVars, calVars, appVars>>

PolygonNext == PolygonArea \/ PolygonLabelStats

SpecPolygon == PolygonInit /\ [][PolygonNext]_vars

\* The list moved round by k places, and the list in reverse order.
RotateList(l, k) == [i \in 1..Len(l) |-> l[((i - 1 + k) % Len(l)) + 1]]
ReverseList(l) == [i \in 1..Len(l) |-> l[Len(l) + 1 - i]]

\* isPointInPolygon on its own, called twice with the same arguments.
\* Coordinates are in halves of a unit: the unit square is Rect(0, 0, 2, 2)
\* and (0.5, 0.5) is Pt(1, 1).  Rectangles have their corners on even
\* coordinates and are listed from each corner on in both windings.
MaxCell == 2

PipCorners == {2 * k : k \in 0..MaxCell}

PipRectLists ==
    {RotateList(Rect(x1, y1, x2, y2), k) :
        x1 \in PipCorners, x2 \in PipCorners, y1 \in PipCorners,
        y2 \in PipCorners, k \in 0..3}

PipRects == {r \in PipRectLists : r[1].x # r[3].x /\ r[1].y # r[3].y}

PipOthers ==
    {<<Pt(0, 0), Pt(3, 1), Pt(1, 3)>>, <<Pt(0, 0), Pt(4, 0), Pt(0, 4)>>,
     <<Pt(0, 0), Pt(4, 0), Pt(4, 4), Pt(2, 1), Pt(0, 4)>>}

PipPoints ==
    {Pt(x, y) : x \in -1..(2 * MaxCell + 1), y \in -1..(2 * MaxCell + 1)}

PointInInit ==
    /\ DrawIdle /\ OverlapIdle /\ SnapIdle /\ CalIdle
    /\ \E q \in PipPoints, poly \in PipRects \cup PipOthers :
           fnArgs = [p |-> q, polygon |-> poly]
    /\ fnResult = <<>>
    /\ fnpc = "input"
    /\ LoopIdle
    /\ AppIdle

PointInPolygon ==
    /\ fnpc = "input"
    /\ fnResult' = <<isPointInPolygon(fnArgs.p, fnArgs.polygon)>>
    /\ fnpc' = "isPointInPolygon"
    /\ UNCHANGED <<fnArgs, loopVars, drawVars, overlapVars, snapVars, calVars, appVars>>

PointInPolygonAgain ==
    /\ fnpc = "isPointInPolygon"
    /\ Len(fnResult) = 1
    /\ fnResult' = Append(fnResult, isPointInPolygon(fnArgs.p, fnArgs.polygon))
    /\ UNCHANGED <<fnArgs, fnpc, loopVars, drawVars, overlapVars, snapVars, calVars, appVars>>

PointInNext == PointInPolygon \/ PointInPolygonAgain

SpecPointIn == PointInInit /\ [][PointInNext]_vars

\* ------------------------------------------------------ resolveAllOverlaps
\* snapVerticesToEdges: for one vertex the candidates in the order they are
\* tested, per static polygon its vertices and then the closest points of
\* its edges; the first of strictly smallest distance below the threshold
\* replaces the vertex.
RECURSIVE VertexSnapCandidates(_, _, _, _)
VertexSnapCandidates(vertex, staticPolygons, k, acc) ==
    IF k > Len(staticPolygons) THEN acc
    ELSE LET sp == staticPolygons[k]
             vs == [i \in 1..Len(sp) |-> [mp |-> vertex, sp |-> ToR(sp[i])]]
             es == [i \in 1..Len(sp) |->
                      [mp |-> vertex,
                       sp |-> getClosestPointOnSegment(vertex, ToR(sp[i]),
                                  ToR(sp[NextIdx(i, Len(sp))]))]]
         IN  VertexSnapCandidates(vertex, staticPolygons, k + 1, acc \o vs \o es)

\* A variant whose threshold is one unit wider.
snapVerticesToEdgesWider(poly, staticPolygons, threshold) ==
    [i \in 1..Len(poly) |->
        LET st == MinScan(VertexSnapCandidates(poly[i], staticPolygons, 1, <<>>),
                          1, ScanStart(threshold + 1))
        IN  IF st.found THEN st.sp ELSE poly[i]]

snapVerticesToEdges(poly, staticPolygons, threshold) ==
    [i \in 1..Len(poly) |->
        LET st == MinScan(VertexSnapCandidates(poly[i], staticPolygons, 1, <<>>),
                          1, ScanStart(threshold))
        IN  IF st.found THEN st.sp ELSE poly[i]]

maxIterations == 10

\* The loop guard `iteration < maxIterations`, and a variant that lets one
\* more pass through.
MorePassesOneMore(i) == i < maxIterations + 1

MorePasses(i) == i < maxIterations

\* One pass of `for (const staticPoly of staticPolygons)` from index k on.
\* st = [poly, hasOverlap]; poly = [pts, d] has its vertices in units of 1/d,
\* and the static polygon is brought to the same unit.
RECURSIVE PassOver(_, _, _)
PassOver(staticPolygons, k, st) ==
    IF k > Len(staticPolygons) THEN st
    ELSE LET sta == ScaleUp(staticPolygons[k], st.poly.d)
         IN  IF doPolygonsIntersect(st.poly.pts, sta)
             THEN LET v == calculateMTV(st.poly.pts, sta)
                  IN  PassOver(staticPolygons, k + 1,
                          [poly |-> IF v.isNull THEN st.poly
                                    ELSE [pts |-> Translate(st.poly.pts, v).pts,
                                          d |-> st.poly.d * v.d],
                           hasOverlap |-> TRUE])
             ELSE PassOver(staticPolygons, k + 1, st)

\* The polygon with its vertices as fractions.
PolyPoints(poly) ==
    [i \in 1..Len(poly.pts) |->
        RPt(Frac(poly.pts[i].x, poly.d), Frac(poly.pts[i].y, poly.d))]

\* A moving rectangle two units high and up to five wide, and up to
\* MaxStatics static rectangles out of: two side by side with a gap of one
\* unit between them, and one above both.
MaxStatics == 2

StaticLeft == Rect(0, 0, 2, 4)
StaticRight == Rect(3, 0, 5, 4)
StaticAbove == Rect(0, 5, 5, 7)

RECURSIVE StaticLists(_)
StaticLists(n) ==
    IF n = 0 THEN {<<>>}
    ELSE StaticLists(n - 1)
         \cup {Append(l, r) : l \in {m \in StaticLists(n - 1) : Len(m) = n - 1},
                              r \in {StaticLeft, StaticRight, StaticAbove}}

MovingRects ==
    {Rect(c[1], c[3], c[2], c[3] + 2) :
        c \in {e \in (0..4) \X (1..5) \X {0, 1, 4} : e[1] < e[2]}}

ResolveInit ==
    /\ DrawIdle /\ OverlapIdle /\ SnapIdle /\ CalIdle
    /\ \E m \in MovingRects, ss \in StaticLists(MaxStatics) :
           fnArgs = [movingPoly |-> m, staticPolygons |-> ss]
    /\ fnResult = <<>>
    /\ fnpc = "input"
    /\ LoopIdle
    /\ AppIdle

\* let currentPoly = [...movingPoly.map(p => ({ ...p }))]; iteration = 0
ResolveStart ==
    /\ fnpc = "input"
    /\ currentPoly' = [pts |-> fnArgs.movingPoly, d |-> 1]
    /\ iteration' = 0
    /\ fnpc' = "loop"
    /\ UNCHANGED <<fnArgs, fnResult, hasOverlap, drawVars, overlapVars,
                   snapVars, calVars, appVars>>

\* One pass of the outer loop: the inner loop, then `if (!hasOverlap)
\* break`, else iteration++.
ResolvePass ==
    /\ fnpc = "loop"
    /\ LET st == PassOver(fnArgs.staticPolygons, 1,
                          [poly |-> currentPoly, hasOverlap |-> FALSE])
       IN  /\ currentPoly' = st.poly
           /\ hasOverlap' = st.hasOverlap
           /\ IF ~st.hasOverlap
              THEN iteration' = iteration /\ fnpc' = "snap"
              ELSE /\ iteration' = iteration + 1
                   /\ fnpc' = IF MorePasses(iteration + 1) THEN "loop" ELSE "snap"
    /\ UNCHANGED <<fnArgs, fnResult, drawVars, overlapVars, snapVars, calVars, appVars>>

\* currentPoly = snapVerticesToEdges(currentPoly, staticPolygons, 5); return.
\* The variable currentPoly keeps the polygon as it was before the snap.
ResolveSnap ==
    /\ fnpc = "snap"
    /\ fnResult' = snapVerticesToEdges(PolyPoints(currentPoly),
                                       fnArgs.staticPolygons, 5)
    /\ fnpc' = "resolved"
    /\ UNCHANGED <<fnArgs, loopVars, drawVars, overlapVars, snapVars, calVars, appVars>>

ResolveNext == ResolveStart \/ ResolvePass \/ ResolveSnap

SpecResolve == ResolveInit /\ [][ResolveNext]_vars

\* ------------------------------------------------------- degenerate input
\* The outcome of a call: a value returned, or a TypeError thrown by the
\* read of a property of undefined.
Returned(v) == [threw |-> FALSE, value |-> v]
TypeError == [threw |-> TRUE, value |-> "TypeError"]

\* getPolygonPerimeter: the sum of the edge lengths (the lists of the runs
\* have whole edge lengths).
RECURSIVE PerimeterSum(_, _)
PerimeterSum(points, k) ==
    IF k = 0 THEN 0
    ELSE PerimeterSum(points, k - 1)
         + PointDistance(points[k], points[NextIdx(k, Len(points))])

getPolygonPerimeter(points) == PerimeterSum(points, Len(points))

\* getBoundingBox of an empty list: Math.min() is Infinity, Math.max() is
\* -Infinity, and the differences are -Infinity.
InfiniteBox ==
    [minX |-> "Infinity", maxX |-> "-Infinity", minY |-> "Infinity",
     maxY |-> "-Infinity", width |-> "-Infinity", height |-> "-Infinity"]

getBoundingBoxCall(points) ==
    IF Len(points) = 0 THEN Returned(InfiniteBox)
    ELSE Returned(getBoundingBox(points))

\* isPointInPolygon reads polygon[0].x first: a TypeError for an empty list.
isPointInPolygonCall(pt, polygon) ==
    IF Len(polygon) = 0 THEN TypeError
    ELSE Returned(isPointInPolygon(pt, polygon))

\* doPolygonsIntersect: with an empty list the edge loops do not run, and
\* isPointInPolygon(p1[0], p2) either reads p2[0].x of an empty p2 or p.x of
\* the undefined p1[0].
doPolygonsIntersectCall(poly1, poly2) ==
    IF Len(poly1) = 0 \/ Len(poly2) = 0 THEN TypeError
    ELSE Returned(doPolygonsIntersect(poly1, poly2))

\* calculateMTV: projectPolygon reads poly[0].x for the first axis that is
\* not zero, before any gap is looked for.
calculateMTVCall(mov, sta) ==
    IF (Len(mov) = 0 \/ Len(sta) = 0)
       /\ \E k \in 1..Len(MTVAxes(mov, sta)) : MTVAxes(mov, sta)[k] # Pt(0, 0)
    THEN TypeError
    ELSE Returned(calculateMTV(mov, sta))

\* Lists of up to two points with whole distances between any two of them
\* (so a list of two equal points, a zero-length segment, is among them),
\* and one rectangle.
DegPoints == {Pt(0, 0), Pt(3, 0), Pt(0, 4), Pt(3, 4)}

DegLists ==
    {<<>>} \cup {<<a>> : a \in DegPoints}
    \cup {<<a, b>> : a \in DegPoints, b \in DegPoints}
    \cup {Rect(0, 0, 3, 4)}

DegenerateInit ==
    /\ DrawIdle /\ OverlapIdle /\ SnapIdle /\ CalIdle
    /\ \E l1 \in DegLists, l2 \in DegLists, q \in DegPoints :
           fnArgs = [points |-> l1, other |-> l2, p |-> q]
    /\ fnResult = <<>>
    /\ fnpc = "input"
    /\ LoopIdle
    /\ AppIdle

CallCentroid ==
    /\ fnpc = "input"
    /\ fnResult' = Returned(getCentroid(fnArgs.points))
    /\ fnpc' = "getCentroid"
    /\ UNCHANGED <<fnArgs, loopVars, drawVars, overlapVars, snapVars, calVars, appVars>>

CallArea ==
    /\ fnpc = "input"
    /\ fnResult' = Returned(getPolygonArea(fnArgs.points))
    /\ fnpc' = "getPolygonArea"
    /\ UNCHANGED <<fnArgs, loopVars, drawVars, overlapVars, snapVars, calVars, appVars>>

CallPerimeter ==
    /\ fnpc = "input"
    /\ fnResult' = Returned(getPolygonPerimeter(fnArgs.points))
    /\ fnpc' = "getPolygonPerimeter"
    /\ UNCHANGED <<fnArgs, loopVars, drawVars, overlapVars, snapVars, calVars, appVars>>

CallBoundingBox ==
    /\ fnpc = "input"
    /\ fnResult' = getBoundingBoxCall(fnArgs.points)
    /\ fnpc' = "getBoundingBox"
    /\ UNCHANGED <<fnArgs, loopVars, drawVars, overlapVars, snapVars, calVars, appVars>>

CallPointInPolygon ==
    /\ fnpc = "input"
    /\ fnResult' = isPointInPolygonCall(fnArgs.p, fnArgs.points)
    /\ fnpc' = "isPointInPolygon"
    /\ UNCHANGED <<fnArgs, loopVars, drawVars, overlapVars, snapVars, calVars, appVars>>

CallPolygonsIntersect ==
    /\ fnpc = "input"
    /\ fnResult' = doPolygonsIntersectCall(fnArgs.points, fnArgs.other)
    /\ fnpc' = "doPolygonsIntersect"
    /\ UNCHANGED <<fnArgs, loopVars, drawVars, overlapVars, snapVars, calVars, appVars>>

CallMTV ==
    /\ fnpc = "input"
    /\ fnResult' = calculateMTVCall(fnArgs.points, fnArgs.other)
    /\ fnpc' = "calculateMTV"
    /\ UNCHANGED <<fnArgs, loopVars, drawVars, overlapVars, snapVars, calVars, appVars>>

\* The segment of the two distance functions is the list `other` when it
\* has two points.
CallClosestPointOnSegment ==
    /\ fnpc = "input"
    /\ Len(fnArgs.other) = 2
    /\ fnResult' = Returned(getClosestPointOnSegment(ToR(fnArgs.p),
                       ToR(fnArgs.other[1]), ToR(fnArgs.other[2])))
    /\ fnpc' = "getClosestPointOnSegment"
    /\ UNCHANGED <<fnArgs, loopVars, drawVars, overlapVars, snapVars, calVars, appVars>>

CallPointToLineDistance ==
    /\ fnpc = "input"
    /\ Len(fnArgs.other) = 2
    /\ fnResult' = Returned(pointToLineDistance2(ToR(fnArgs.p),
                       fnArgs.other[1], fnArgs.other[2]))
    /\ fnpc' = "pointToLineDistance"
    /\ UNCHANGED <<fnArgs, loopVars, drawVars, overlapVars, snapVars, calVars, appVars>>

DegenerateNext ==
    \/ CallCentroid \/ CallArea \/ CallPerimeter \/ CallBoundingBox
    \/ CallPointInPolygon \/ CallPolygonsIntersect \/ CallMTV
    \/ CallClosestPointOnSegment \/ CallPointToLineDistance

SpecDegenerate == DegenerateInit /\ [][DegenerateNext]_vars

\* ------------------------------------------------------ segment harness
\* onSegment(p, q, r): q lies in the bounding box of p and r.
onSegment(p, q, r) ==
    /\ q.x <= Max2(p.x, r.x) /\ q.x >= Min2(p.x, r.x)
    /\ q.y <= Max2(p.y, r.y) /\ q.y >= Min2(p.y, r.y)

\* A variant of doLineSegmentsIntersect without the four collinear cases.
doLineSegmentsIntersectGeneralOnly(p1, q1, p2, q2) ==
    /\ orientation(p1, q1, p2) # orientation(p1, q1, q2)
    /\ orientation(p2, q2, p1) # orientation(p2, q2, q1)

doLineSegmentsIntersect(p1, q1, p2, q2) ==
    LET o1 == orientation(p1, q1, p2)
        o2 == orientation(p1, q1, q2)
        o3 == orientation(p2, q2, p1)
        o4 == orientation(p2, q2, q1)
    IN  IF o1 # o2 /\ o3 # o4 THEN TRUE
        ELSE IF o1 = 0 /\ onSegment(p1, p2, q1) THEN TRUE
        ELSE IF o2 = 0 /\ onSegment(p1, q2, q1) THEN TRUE
        ELSE IF o3 = 0 /\ onSegment(p2, p1, q2) THEN TRUE
        ELSE IF o4 = 0 /\ onSegment(p2, q1, q2) THEN TRUE
        ELSE FALSE

\* segmentsCross and checkPolygonSelfIntersection on coordinates counted in
\* 1/perUnit of a world unit (one screen pixel at zoom factor perUnit), so
\* that points closer than the tolerance 0.1 can be told apart:
\* |dx| / perUnit < 1/10.  orientation is a sign and does not depend on the
\* unit.
NearEpsAt(a, b, perUnit) ==
    10 * Abs(a.x - b.x) < perUnit /\ 10 * Abs(a.y - b.y) < perUnit

\* A variant of segmentsCross without the shared-vertex exclusion.
segmentsCrossAtAnyTouch(a1, a2, b1, b2, perUnit) ==
    /\ orientation(a1, a2, b1) # orientation(a1, a2, b2)
    /\ orientation(b1, b2, a1) # orientation(b1, b2, a2)

segmentsCrossAt(a1, a2, b1, b2, perUnit) ==
    LET o1 == orientation(a1, a2, b1)
        o2 == orientation(a1, a2, b2)
        o3 == orientation(b1, b2, a1)
        o4 == orientation(b1, b2, a2)
    IN  IF o1 # o2 /\ o3 # o4
        THEN ~ (NearEpsAt(a1, b1, perUnit) \/ NearEpsAt(a1, b2, perUnit)
                \/ NearEpsAt(a2, b1, perUnit) \/ NearEpsAt(a2, b2, perUnit))
        ELSE FALSE

checkPolygonSelfIntersectionAt(points, nextPoint, perUnit) ==
    IF Len(points) < 3 THEN FALSE
    ELSE
      LET p1 == points[Len(points)]
          q1 == nextPoint
          isClosing == NearEpsAt(nextPoint, points[1], perUnit)
          startIdx == IF isClosing THEN 1 ELSE 0
          endIdx == Len(points) - 2
      IN  \E i \in startIdx..(endIdx - 1) :
              segmentsCrossAt(p1, q1, points[i + 1], points[i + 2], perUnit)

\* Segments offered: every four grid points, in world units, and segments
\* around the corner (10, 1) of a square drawn at zoom factor 20, counted in
\* twentieths.
FineUnit == 20
FinePoints ==
    {Pt(0, 20), Pt(200, 20), Pt(200, 200), Pt(199, 19), Pt(201, 19),
     Pt(199, 21), Pt(100, 0), Pt(100, 100)}

SegmentsInit ==
    /\ DrawIdle /\ OverlapIdle /\ SnapIdle /\ CalIdle /\ LoopIdle /\ AppIdle
    /\ \/ \E a \in GridPoints, b \in GridPoints, c \in GridPoints, d \in GridPoints :
             fnArgs = [p1 |-> a, q1 |-> b, p2 |-> c, q2 |-> d, perUnit |-> 1]
       \/ \E a \in FinePoints, b \in FinePoints, c \in FinePoints, d \in FinePoints :
             fnArgs = [p1 |-> a, q1 |-> b, p2 |-> c, q2 |-> d, perUnit |-> FineUnit]
    /\ fnResult = <<>>
    /\ fnpc = "input"

CallLineSegmentsIntersect ==
    /\ fnpc = "input"
    /\ fnResult' = doLineSegmentsIntersect(fnArgs.p1, fnArgs.q1, fnArgs.p2, fnArgs.q2)
    /\ fnpc' = "doLineSegmentsIntersect"
    /\ UNCHANGED <<fnArgs, loopVars, drawVars, overlapVars, snapVars, calVars, appVars>>

CallSegmentsCross ==
    /\ fnpc = "input"
    /\ fnResult' = segmentsCrossAt(fnArgs.p1, fnArgs.q1, fnArgs.p2, fnArgs.q2,
                                   fnArgs.perUnit)
    /\ fnpc' = "segmentsCross"
    /\ UNCHANGED <<fnArgs, loopVars, drawVars, overlapVars, snapVars, calVars, appVars>>

SegmentsNext == CallLineSegmentsIntersect \/ CallSegmentsCross

SpecSegments == SegmentsInit /\ [][SegmentsNext]_vars

\* ------------------------------------------------- polygon pair harness
\* Pairs offered to doPolygonsIntersect: the first polygon is any list of 3
\* or 4 distinct points of PairPoints (simple, self-crossing and flat rings
\* in every listing), the second another such list or one of the rings of
\* PairOthers (around, inside, across and away from them).
PairPoints == {Pt(1, 1), Pt(3, 1), Pt(3, 3), Pt(1, 3), Pt(2, 2)}

PairLists(n) == {l \in [1..n -> PairPoints] : Distinct(l)}

PairOthers ==
    {Rect(0, 0, 4, 4), Rect(2, 0, 6, 4), Rect(1, 1, 3, 3), Rect(2, 2, 3, 3),
     Rect(5, 5, 6, 6), Rect(3, 1, 5, 3),
     <<Pt(0, 0), Pt(4, 0), Pt(0, 4)>>,
     <<Pt(0, 0), Pt(4, 4), Pt(4, 0), Pt(0, 4)>>,
     <<Pt(0, 2), Pt(2, 2), Pt(4, 2)>>,
     <<Pt(2, 0), Pt(4, 2), Pt(2, 4), Pt(0, 2)>>}

PairsInit ==
    /\ DrawIdle /\ OverlapIdle /\ SnapIdle /\ CalIdle /\ LoopIdle /\ AppIdle
    /\ \E a \in PairLists(3) \union PairLists(4),
          b \in PairLists(3) \union PairLists(4) \union PairOthers :
          fnArgs = [poly1 |-> a, poly2 |-> b]
    /\ fnResult = <<>>
    /\ fnpc = "input"

CallDoPolygonsIntersect ==
    /\ fnpc = "input"
    /\ fnResult' = doPolygonsIntersect(fnArgs.poly1, fnArgs.poly2)
    /\ fnpc' = "doPolygonsIntersect"
    /\ UNCHANGED <<fnArgs, loopVars, drawVars, overlapVars, snapVars, calVars, appVars>>

PairsNext == CallDoPolygonsIntersect

SpecPairs == PairsInit /\ [][PairsNext]_vars

\* ------------------------------------------------------- undo history
\* The sheet as undo and redo see it.  history is 1-based here, so the
\* snapshot at the source's index i is history[i + 1].
MaxHistory == 4

Sheet(sh, h, i) == [shapes |-> sh, history |-> h, historyIndex |-> i]

TheSheet == Sheet(sheetShapes, history, historyIndex)

\* A variant of addToHistory that does not cut the history at the index.
addToHistoryKeepTail(st, newShapes) ==
    Sheet(st.shapes, Append(st.history, newShapes), Len(st.history))

\* addToHistory(shapes): history.slice(0, historyIndex + 1) with a copy of
\* shapes pushed; the index becomes newHistory.length - 1.
addToHistory(st, newShapes) ==
    LET newHistory == Append(SubSeq(st.history, 1, st.historyIndex + 1), newShapes)
    IN  Sheet(st.shapes, newHistory, Len(newHistory) - 1)

undo(st) ==
    IF st.historyIndex > 0
    THEN Sheet(st.history[(st.historyIndex - 1) + 1], st.history, st.historyIndex - 1)
    ELSE st

redo(st) ==
    IF st.historyIndex < Len(st.history) - 1
    THEN Sheet(st.history[(st.historyIndex + 1) + 1], st.history, st.historyIndex + 1)
    ELSE st

\* updateActiveSheet({shapes})
updateActiveSheet(st, newShapes) == Sheet(newShapes, st.history, st.historyIndex)

\* handleShapeAdd / handleShapesAdd with one shape, and handleShapeDelete:
\* the new list is stored and snapshotted.
handleShapeAdd(st, shape) ==
    addToHistory(updateActiveSheet(st, Append(st.shapes, shape)), Append(st.shapes, shape))

handleShapeDelete(st, ids) ==
    LET newShapes == SelectSeq(st.shapes, LAMBDA sh : sh.id \notin ids)
    IN  addToHistory(updateActiveSheet(st, newShapes), newShapes)

SetSheet(st) ==
    /\ sheetShapes' = st.shapes
    /\ history' = st.history
    /\ historyIndex' = st.historyIndex

AreaShape(i, t, pts) == [id |-> i, type |-> t, points |-> pts]

HistoryShapes ==
    {AreaShape(1, "polygon", <<Pt(0, 0), Pt(4, 0), Pt(0, 4)>>),
     AreaShape(2, "rectangle", Rect(5, 0, 7, 2)),
     AreaShape(3, "line", <<Pt(0, 5), Pt(5, 5)>>)}

ShapeIds(shapeList) == {shapeList[k].id : k \in 1..Len(shapeList)}

\* The sheet after the effect that runs when a sheet becomes active:
\* setHistory([activeSheet.shapes]), setHistoryIndex(0).
HistoryInit ==
    /\ DrawIdle /\ OverlapIdle /\ SnapIdle /\ CalIdle /\ FnIdle
    /\ CanvasIdle /\ DxfIdle /\ heap = <<>>
    /\ \/ sheetShapes = <<>>
       \/ \E sh \in HistoryShapes : sheetShapes = <<sh>>
    /\ history = <<sheetShapes>>
    /\ historyIndex = 0

ShapeAdd ==
    /\ Len(history) < MaxHistory
    /\ \E sh \in HistoryShapes :
          /\ sh.id \notin ShapeIds(sheetShapes)
          /\ SetSheet(handleShapeAdd(TheSheet, sh))
    /\ UNCHANGED <<drawVars, overlapVars, snapVars, calVars, fnVars, canvasVars,
                   dxfVars, heap>>

ShapeDelete ==
    /\ Len(history) < MaxHistory
    /\ \E id \in ShapeIds(sheetShapes) : SetSheet(handleShapeDelete(TheSheet, {id}))
    /\ UNCHANGED <<drawVars, overlapVars, snapVars, calVars, fnVars, canvasVars,
                   dxfVars, heap>>

Undo ==
    /\ SetSheet(undo(TheSheet))
    /\ UNCHANGED <<drawVars, overlapVars, snapVars, calVars, fnVars, canvasVars,
                   dxfVars, heap>>

Redo ==
    /\ SetSheet(redo(TheSheet))
    /\ UNCHANGED <<drawVars, overlapVars, snapVars, calVars, fnVars, canvasVars,
                   dxfVars, heap>>

HistoryNext == ShapeAdd \/ ShapeDelete \/ Undo \/ Redo

SpecHistory == HistoryInit /\ [][HistoryNext]_vars

\* ------------------------------------------------------- polygon tool
\* The polygon tool of the canvas at zoom factor 20 with the viewport at the
\* origin: a screen pixel is a twentieth of a world unit, and coordinates
\* are counted in twentieths (FineUnit per unit).  No snap indicator is
\* shown and shift is not held, so clickPos is the world position of the
\* click and constrainPoint returns it.
MaxDrawLen == 5
MaxPolygons == 1

\* getDistance(a, b) < pixels / scale, for a and b in twentieths.
CloserThanPixels(a, b, pixels) ==
    ((a.x - b.x) * (a.x - b.x) + (a.y - b.y) * (a.y - b.y)) * scale * scale
        < pixels * pixels * FineUnit * FineUnit

\* resolveCollision's test as finishPolygon makes it: some area shape of the
\* sheet intersects the points.
IsAreaShape(sh) == sh.type \in {"polygon", "rectangle", "square"}

HasCollision(points, shapeList) ==
    \E k \in 1..Len(shapeList) :
        IsAreaShape(shapeList[k]) /\ doPolygonsIntersect(points, shapeList[k].points)

\* finishPolygon(points), as the sheet and the draw state it leaves.
finishPolygon(st, draw, points) ==
    IF Len(points) < 3 THEN [sheet |-> st, polyDraw |-> draw]
    ELSE IF checkPolygonSelfIntersectionAt(points, points[1], FineUnit)
    THEN [sheet |-> st, polyDraw |-> draw]
    ELSE IF preventOverlap /\ HasCollision(points, st.shapes)
    THEN [sheet |-> st, polyDraw |-> draw]
    ELSE [sheet |-> handleShapeAdd(st, AreaShape(Len(st.shapes) + 1, "polygon", points)),
          polyDraw |-> NoPolyDraw]

\* handleMouseDown with the polygon tool.
polygonMouseDown(st, draw, clickPos) ==
    IF draw.isActive /\ Len(draw.points) > 2
       /\ CloserThanPixels(clickPos, draw.points[1], 20)
    THEN finishPolygon(st, draw, draw.points)
    ELSE IF ~ draw.isActive
    THEN [sheet |-> st, polyDraw |-> [isActive |-> TRUE, points |-> <<clickPos>>]]
    ELSE IF CloserThanPixels(clickPos, draw.points[Len(draw.points)], 5)
    THEN [sheet |-> st, polyDraw |-> draw]
    ELSE IF checkPolygonSelfIntersectionAt(draw.points, clickPos, FineUnit)
    THEN [sheet |-> st, polyDraw |-> draw]
    ELSE [sheet |-> st,
          polyDraw |-> [isActive |-> TRUE, points |-> Append(draw.points, clickPos)]]

\* Places clicked: the corners of a square of side 9 or 10 units, a point
\* one pixel off its corner (10, 1), its middle, and a point near the first
\* corner.
ClickPoints ==
    {Pt(0, 20), Pt(200, 20), Pt(200, 200), Pt(0, 200), Pt(199, 19),
     Pt(100, 100), Pt(100, 0), Pt(5, 25)}

PolygonToolInit ==
    /\ DrawIdle /\ OverlapIdle /\ SnapIdle /\ CalIdle /\ FnIdle
    /\ DxfIdle /\ heap = <<>>
    /\ sheetShapes = <<>> /\ history = <<sheetShapes>> /\ historyIndex = 0
    /\ polyDraw = NoPolyDraw
    /\ dragState = NoDrag
    /\ scale = FineUnit
    /\ allowOutsideDraw = FALSE
    /\ preventOverlap \in BOOLEAN

PolygonMouseDown ==
    /\ Len(sheetShapes) < MaxPolygons
    /\ Len(polyDraw.points) < MaxDrawLen
    /\ \E clickPos \in ClickPoints :
          LET r == polygonMouseDown(TheSheet, polyDraw, clickPos)
          IN  SetSheet(r.sheet) /\ polyDraw' = r.polyDraw
    /\ UNCHANGED <<drawVars, overlapVars, snapVars, calVars, fnVars, dragState, scale,
                   allowOutsideDraw, preventOverlap, dxfVars, heap>>

\* handleDoubleClick
PolygonDoubleClick ==
    /\ polyDraw.isActive /\ Len(polyDraw.points) > 2
    /\ LET r == finishPolygon(TheSheet, polyDraw, polyDraw.points)
       IN  SetSheet(r.sheet) /\ polyDraw' = r.polyDraw
    /\ UNCHANGED <<drawVars, overlapVars, snapVars, calVars, fnVars, dragState, scale,
                   allowOutsideDraw, preventOverlap, dxfVars, heap>>

PolygonToolNext == PolygonMouseDown \/ PolygonDoubleClick

SpecPolygonTool == PolygonToolInit /\ [][PolygonToolNext]_vars

\* ----------------------------------------------------------- move drag
\* Dragging a shape with the select tool, at zoom factor 1 with the viewport
\* at the origin, on a sheet of axis-parallel rectangles with integer
\* corners; the snap corrections of such a sheet are whole numbers.  The
\* snap threshold SNAP_THRESHOLD / scale is the harness input snThreshold,
\* and a run makes at most MaxDrags drags.
MaxDrags == 1

Image == [naturalWidth |-> 6, naturalHeight |-> 4]

MousePoints == {Pt(x, 1) : x \in 0..Image.naturalWidth} \union {Pt(1, 3)}

IntOf(f) == f.n \div f.d

TranslateBy(points, dx, dy) ==
    [i \in 1..Len(points) |-> Pt(points[i].x + dx, points[i].y + dy)]

OutOfImage(points) ==
    \E i \in 1..Len(points) :
        \/ points[i].x < 0 \/ points[i].x > Image.naturalWidth
        \/ points[i].y < 0 \/ points[i].y > Image.naturalHeight

ShapeWithId(shapeList, id) ==
    shapeList[CHOOSE k \in 1..Len(shapeList) : shapeList[k].id = id]

\* shapes.filter(s => !movingShapeIds.includes(s.id))
StaticShapes(shapeList, drag) ==
    SelectSeq(shapeList, LAMBDA sh : sh.id \notin {drag.initialShapesMap[k].id :
                                                    k \in 1..Len(drag.initialShapesMap)})

RECURSIVE AllInitialPoints(_, _)
AllInitialPoints(map, k) ==
    IF k = 0 THEN <<>> ELSE AllInitialPoints(map, k - 1) \o map[k].points

\* The snap correction of the drag at worldPos and the displacement
\* finalDx, finalDy that results from it.
MoveSnap(shapeList, drag, worldPos, threshold) ==
    calculateSnapCorrection(
        TranslateBy(AllInitialPoints(drag.initialShapesMap, Len(drag.initialShapesMap)),
                    worldPos.x - drag.startX, worldPos.y - drag.startY),
        StaticShapes(shapeList, drag), threshold)

\* finalDx, finalDy: the raw displacement plus snap.delta.
FinalDelta(drag, worldPos, snap) ==
    Pt((worldPos.x - drag.startX) + IntOf(snap.delta.x),
       (worldPos.y - drag.startY) + IntOf(snap.delta.y))

\* newShapesData: the moved points of every shape of the drag.
NewShapesData(drag, finalDelta) ==
    [k \in 1..Len(drag.initialShapesMap) |->
        [id |-> drag.initialShapesMap[k].id,
         points |-> TranslateBy(drag.initialShapesMap[k].points,
                                finalDelta.x, finalDelta.y)]]

\* handleShapesUpdate(updates): the points of the listed shapes replaced.
handleShapesUpdate(shapeList, updates) ==
    [k \in 1..Len(shapeList) |->
        IF \E u \in 1..Len(updates) : updates[u].id = shapeList[k].id
        THEN [shapeList[k] EXCEPT
                 !.points = updates[CHOOSE u \in 1..Len(updates) :
                                        updates[u].id = shapeList[k].id].points]
        ELSE shapeList[k]]

MoveOutOfBounds(data) ==
    ~ allowOutsideDraw /\ \E k \in 1..Len(data) : OutOfImage(data[k].points)

MoveHasCollision(shapeList, drag, data) ==
    /\ preventOverlap /\ ~ drag.isOverlappingAtStart
    /\ \E k \in 1..Len(data) :
          /\ IsAreaShape(ShapeWithId(shapeList, data[k].id))
          /\ HasCollision(data[k].points, StaticShapes(shapeList, drag))

\* The end of the move step: newShapesData is committed unless a point is
\* out of bounds or a moved area shape collides.
CommitUnlessBlocked(shapeList, drag, data) ==
    IF ~ MoveOutOfBounds(data) /\ ~ MoveHasCollision(shapeList, drag, data)
    THEN handleShapesUpdate(shapeList, data)
    ELSE shapeList

\* A variant of the move step that commits whatever the collision test says.
moveStepUnchecked(shapeList, drag, worldPos, snap) ==
    handleShapesUpdate(shapeList, NewShapesData(drag, FinalDelta(drag, worldPos, snap)))

\* handleMouseMove in mode 'move', after
\* snap = calculateSnapCorrection(tentativeMovingPoints, staticShapes, ...):
\* the shape list it leaves.
moveStep(shapeList, drag, worldPos, snap) ==
    CommitUnlessBlocked(shapeList, drag,
                        NewShapesData(drag, FinalDelta(drag, worldPos, snap)))

\* The topmost shape under worldPos: the loop runs from the last shape down.
HitIndexes(shapeList, worldPos) ==
    {k \in 1..Len(shapeList) :
        IsAreaShape(shapeList[k]) /\ isPointInPolygon(worldPos, shapeList[k].points)}

TopHit(shapeList, worldPos) ==
    CHOOSE k \in HitIndexes(shapeList, worldPos) :
        \A j \in HitIndexes(shapeList, worldPos) : j <= k

MoveSheets ==
    {<<AreaShape(1, "rectangle", Rect(0, 0, 2, 2)),
       AreaShape(2, "polygon", Rect(3, 0, 5, 2))>>}

MoveInit ==
    /\ DrawIdle /\ OverlapIdle /\ CalIdle /\ FnIdle /\ DxfIdle /\ heap = <<>>
    /\ snPoints = <<>> /\ snShapes = <<>> /\ snGrid = NoGrid /\ snPpm = PpmNull
    /\ snCorrection = NoCorrection /\ snGridPoint = NoPoint /\ snClosest = NoPoint
    /\ snpc = "idle"
    /\ snThreshold \in {0, 2}
    /\ sheetShapes \in MoveSheets
    /\ history = <<sheetShapes>> /\ historyIndex = 0
    /\ polyDraw = NoPolyDraw
    /\ dragState = NoDrag
    /\ scale = 1
    /\ allowOutsideDraw \in BOOLEAN
    /\ preventOverlap = TRUE

\* handleMouseDown with the select tool on the body of a shape.
MoveMouseDown ==
    /\ ~ dragState.isDragging
    /\ Len(history) <= MaxDrags
    /\ \E worldPos \in MousePoints :
          /\ HitIndexes(sheetShapes, worldPos) # {}
          /\ LET sh == sheetShapes[TopHit(sheetShapes, worldPos)]
             IN  dragState' = [isDragging |-> TRUE, startX |-> worldPos.x,
                               startY |-> worldPos.y, mode |-> "move",
                               initialShapesMap |-> <<[id |-> sh.id, points |-> sh.points]>>,
                               isOverlappingAtStart |-> FALSE]
    /\ UNCHANGED <<drawVars, overlapVars, snapVars, calVars, fnVars, sheetVars, polyDraw,
                   scale, allowOutsideDraw, preventOverlap, dxfVars, heap>>

MoveMouseMove ==
    /\ dragState.isDragging
    /\ \E worldPos \in MousePoints :
          \E snap \in {MoveSnap(sheetShapes, dragState, worldPos, snThreshold)} :
              /\ snCorrection' = snap
              /\ sheetShapes' = moveStep(sheetShapes, dragState, worldPos, snap)
    /\ UNCHANGED <<drawVars, overlapVars, calVars, fnVars, history, historyIndex,
                   canvasVars, dxfVars, heap,
                   snPoints, snShapes, snThreshold, snGrid, snPpm, snGridPoint,
                   snClosest, snpc>>

\* handleMouseUp: onShapeUpdateEnd takes the snapshot, the drag ends.
MoveMouseUp ==
    /\ dragState.isDragging
    /\ SetSheet(addToHistory(TheSheet, sheetShapes))
    /\ dragState' = NoDrag
    /\ UNCHANGED <<drawVars, overlapVars, snapVars, calVars, fnVars, polyDraw,
                   scale, allowOutsideDraw, preventOverlap, dxfVars, heap>>

MoveNext == MoveMouseDown \/ MoveMouseMove \/ MoveMouseUp

SpecMove == MoveInit /\ [][MoveNext]_vars

\* ------------------------------------------------------ arrays as objects
\* A call is handed its arrays by reference.  heap[r] is the array with the
\* reference r, a list of points with fractions as coordinates; the heap
\* keeps the arrays of the caller and every array that a function makes out
\* of an array it was handed.  A run makes at most MaxCalls calls, each on
\* the caller's two arrays.
MaxCalls == 2

\* The points of an array whose coordinates are whole numbers.
Whole(cell) == [i \in 1..Len(cell) |-> Pt(IntOf(cell[i].x), IntOf(cell[i].y))]

\* A variant of map that stores the new elements into the array it reads.
ArrayMapInPlace(h, r, cell) == [heap |-> [h EXCEPT ![r] = cell], ref |-> r]

\* h[r].map(f), cell being f of every element: a new array, and its
\* reference.
ArrayMap(h, r, cell) == [heap |-> Append(h, cell), ref |-> Len(h) + 1]

\* scalePolygon(points, num/den) as fractions.
ScaledCell(points, num, den) ==
    LET sc == scalePolygon(points, num, den, 1)
    IN  [i \in 1..Len(points) |->
            RPt(Frac(sc[i].x, den * Len(points)), Frac(sc[i].y, den * Len(points)))]

\* scalePolygon: return points.map(p => ({x: ..., y: ...}))
scalePolygonOn(h, r, num, den) == ArrayMap(h, r, ScaledCell(Whole(h[r]), num, den))

\* doPolygonsIntersect: p1 = scalePolygon(poly1, 0.999), p2 =
\* scalePolygon(poly2, 0.999), then reads of p1 and p2.
doPolygonsIntersectOn(h, r1, r2) ==
    LET p1 == scalePolygonOn(h, r1, 999, 1000)
        p2 == scalePolygonOn(p1.heap, r2, 999, 1000)
    IN  [heap |-> p2.heap, value |-> doPolygonsIntersect(Whole(h[r1]), Whole(h[r2]))]

\* The for loop of resolveAllOverlaps from the given iteration on: the
\* polygon that the last pass leaves (st is the outcome of one pass).
RECURSIVE ResolveLoop(_, _, _)
ResolveLoop(staticPolygons, poly, i) ==
    IF ~ MorePasses(i) THEN poly
    ELSE CHOOSE last \in
             {IF ~ st.hasOverlap THEN st.poly
              ELSE ResolveLoop(staticPolygons, st.poly, i + 1) :
                 st \in {PassOver(staticPolygons, 1,
                                  [poly |-> poly, hasOverlap |-> FALSE])}} : TRUE

\* resolveAllOverlaps: currentPoly = [...movingPoly.map(p => ({ ...p }))],
\* then currentPoly = currentPoly.map(...) for every translation (the heap
\* keeps the last of these arrays), then the map of snapVerticesToEdges.
\* statics are the points of staticPolygons and final is what the for
\* loop leaves of the moving polygon.
resolveAllOverlapsOn(h, r, statics, final) ==
    LET copy == ArrayMap(h, r, h[r])
        translated == IF PolyPoints(final) = h[r] THEN copy
                      ELSE ArrayMap(copy.heap, copy.ref, PolyPoints(final))
        snapped == ArrayMap(translated.heap, translated.ref,
                            snapVerticesToEdges(PolyPoints(final), statics, 5))
    IN  [heap |-> snapped.heap, value |-> snapped.ref]

\* The functions that only read their arguments.
calculateMTVOn(h, r1, r2) ==
    [heap |-> h, value |-> calculateMTV(Whole(h[r1]), Whole(h[r2]))]

checkPolygonSelfIntersectionOn(h, r, nextPoint) ==
    [heap |-> h, value |-> checkPolygonSelfIntersection(Whole(h[r]), nextPoint)]

getClosestSnapPointOn(h, target, r, threshold) ==
    [heap |-> h,
     value |-> getClosestSnapPoint(ToR(target), <<MkShape("polygon", Whole(h[r]))>>,
                                   threshold, FALSE, NoGrid.config, PpmNull)]

calculateSnapCorrectionOn(h, r1, r2, threshold) ==
    [heap |-> h,
     value |-> calculateSnapCorrection(Whole(h[r1]), <<MkShape("polygon", Whole(h[r2]))>>,
                                       threshold)]

getAxisSystemPointsOn(h, r, config) ==
    [heap |-> h,
     value |-> getAxisSystemPoints(Whole(h[r])[1], Whole(h[r])[2], config, PpmNull)]

\* The caller's arrays: a moving square or triangle, and a static
\* rectangle.
HeapMoving == {Rect(1, 1, 3, 3), <<Pt(0, 0), Pt(4, 0), Pt(0, 3)>>}
HeapStatic == {StaticLeft, Rect(2, 2, 4, 4)}
CallerRefs == {1, 2}

HeapInit ==
    /\ DrawIdle /\ OverlapIdle /\ SnapIdle /\ CalIdle /\ LoopIdle
    /\ SheetIdle /\ CanvasIdle /\ DxfIdle
    /\ \E m \in HeapMoving, st \in HeapStatic : heap = <<ToRSeq(m), ToRSeq(st)>>
    /\ fnArgs = [refs |-> <<>>, before |-> <<>>, calls |-> 0]
    /\ fnResult = <<>>
    /\ fnpc = "input"

\* A call of the function fn on the arrays refs that leaves out: the
\* arguments are remembered as they were when the call began.
Called(fn, refs, out) ==
    /\ fnArgs.calls < MaxCalls
    /\ heap' = out.heap
    /\ fnResult' = out.value
    /\ fnArgs' = [refs |-> refs, before |-> [k \in 1..Len(refs) |-> heap[refs[k]]],
                  calls |-> fnArgs.calls + 1]
    /\ fnpc' = fn
    /\ UNCHANGED <<loopVars, drawVars, overlapVars, snapVars, calVars,
                   sheetVars, canvasVars, dxfVars>>

HeapScalePolygon ==
    \E r \in CallerRefs :
        Called("scalePolygon", <<r>>, LET o == scalePolygonOn(heap, r, 1, 2)
                                      IN  [heap |-> o.heap, value |-> o.ref])

HeapDoPolygonsIntersect ==
    \E r1, r2 \in CallerRefs :
        Called("doPolygonsIntersect", <<r1, r2>>, doPolygonsIntersectOn(heap, r1, r2))

HeapCalculateMTV ==
    \E r1, r2 \in CallerRefs :
        Called("calculateMTV", <<r1, r2>>, calculateMTVOn(heap, r1, r2))

HeapResolveAllOverlaps ==
    \E r1, r2 \in CallerRefs :
        \E statics \in {<<Whole(heap[r2])>>} :
            \E final \in {ResolveLoop(statics, [pts |-> Whole(heap[r1]), d |-> 1], 0)} :
                Called("resolveAllOverlaps", <<r1, r2>>,
                       resolveAllOverlapsOn(heap, r1, statics, final))

HeapCheckPolygonSelfIntersection ==
    \E r \in CallerRefs : \E nextPoint \in {Pt(0, 0), Pt(1, 4)} :
        Called("checkPolygonSelfIntersection", <<r>>,
               checkPolygonSelfIntersectionOn(heap, r, nextPoint))

HeapGetClosestSnapPoint ==
    \E r \in CallerRefs : \E target \in {Pt(1, 0), Pt(6, 6)} :
        Called("getClosestSnapPoint", <<r>>, getClosestSnapPointOn(heap, target, r, 2))

HeapCalculateSnapCorrection ==
    \E r1, r2 \in CallerRefs :
        Called("calculateSnapCorrection", <<r1, r2>>,
               calculateSnapCorrectionOn(heap, r1, r2, 2))

HeapGetAxisSystemPoints ==
    \E r \in CallerRefs :
        Called("getAxisSystemPoints", <<r>>,
               getAxisSystemPointsOn(heap, r, AxisConfig(2, 2, <<49>>, 3, FALSE, FALSE)))

HeapNext ==
    \/ HeapScalePolygon \/ HeapDoPolygonsIntersect \/ HeapCalculateMTV
    \/ HeapResolveAllOverlaps \/ HeapCheckPolygonSelfIntersection
    \/ HeapGetClosestSnapPoint \/ HeapCalculateSnapCorrection
    \/ HeapGetAxisSystemPoints

SpecHeap == HeapInit /\ [][HeapNext]_vars

\* ------------------------------------------------------ claims on overlap
\* Edge i of the closed ring s runs from s[i] to its cyclic successor.
EdgeA(s, i) == s[i]
EdgeB(s, i) == s[NextIdx(i, Len(s))]

\* Two segments properly cross: the endpoints of each lie strictly on
\* opposite sides of the other.
ProperCross(a1, a2, b1, b2) ==
    /\ {orientation(a1, a2, b1), orientation(a1, a2, b2)} = {1, 2}
    /\ {orientation(b1, b2, a1), orientation(b1, b2, a2)} = {1, 2}

IsRect(r) ==
    /\ Len(r) = 4
    /\ r[1].x < r[3].x /\ r[1].y < r[3].y
    /\ r = Rect(r[1].x, r[1].y, r[3].x, r[3].y)

BothRects == IsRect(movingPoly) /\ IsRect(staticPoly)

\* The extent of a rectangle on an axis, the length of the interval two
\* rectangles have in common on it, and their penetration depth on it,
\* min(maxA - minB, maxB - minA).
WidthX(r) == r[3].x - r[1].x
WidthY(r) == r[3].y - r[1].y
CommonX(a, b) == Min2(a[3].x, b[3].x) - Max2(a[1].x, b[1].x)
CommonY(a, b) == Min2(a[3].y, b[3].y) - Max2(a[1].y, b[1].y)
DepthX(a, b) == Min2(a[3].x - b[1].x, b[3].x - a[1].x)
DepthY(a, b) == Min2(a[3].y - b[1].y, b[3].y - a[1].y)

\* The rectangles share positive area / share at least one point.
InteriorsMeet(a, b) == CommonX(a, b) > 0 /\ CommonY(a, b) > 0
RectsTouchOrMeet(a, b) == CommonX(a, b) >= 0 /\ CommonY(a, b) >= 0

\* |mtv| = m for an integer m >= 0, with mtv = (x/d, y/d).
MtvLengthIs(v, m) == v.x * v.x + v.y * v.y = m * m * v.d * v.d

\* C2 as stated: for overlapping rectangles the MTV's length is the smaller
\* of the lengths the two rectangles have in common on the x and on the y
\* axis, and the translated rectangle no longer intersects the static one.
C2_MTVIsSmallerCommonExtent ==
    (BothRects /\ InteriorsMeet(movingPoly, staticPoly) /\ opc = "moved")
        => /\ MtvLengthIs(mtv, Min2(CommonX(movingPoly, staticPoly),
                                    CommonY(movingPoly, staticPoly)))
           /\ movedHit = FALSE

\* C2 amended: for overlapping rectangles calculateMTV is not null, its
\* length is the smaller of the two penetration depths
\* min(maxA - minB, maxB - minA), and the translated rectangle no longer
\* intersects the static one.
C2_MTVIsSmallerDepth ==
    (BothRects /\ InteriorsMeet(movingPoly, staticPoly))
        => /\ opc # "input" => ~ mtv.isNull
           /\ opc = "moved" =>
                /\ MtvLengthIs(mtv, Min2(DepthX(movingPoly, staticPoly),
                                         DepthY(movingPoly, staticPoly)))
                /\ movedHit = FALSE

\* The unit squares offset by (0.5, 0), in half units.
C2_Witness ==
    /\ movingPoly = Rect(1, 0, 3, 2) /\ staticPoly = Rect(0, 0, 2, 2)
    /\ opc = "moved" /\ MtvLengthIs(mtv, 1) /\ hit = TRUE /\ movedHit = FALSE

\* A point of the closed convex polygon: on no edge's outer side.
InClosedConvex(p, poly) ==
    LET w == orientation(poly[1], poly[2], poly[3])
    IN  \A i \in 1..Len(poly) :
            orientation(EdgeA(poly, i), EdgeB(poly, i), p) \in {0, w}

\* Two closed convex polygons share a point: a vertex of one lies in the
\* other, or two edges properly cross.
ClosedPolygonsMeet(a, b) ==
    \/ \E i \in 1..Len(a) : InClosedConvex(a[i], b)
    \/ \E j \in 1..Len(b) : InClosedConvex(b[j], a)
    \/ \E i \in 1..Len(a) : \E j \in 1..Len(b) :
          ProperCross(EdgeA(a, i), EdgeB(a, i), EdgeA(b, j), EdgeB(b, j))

\* C3 as stated: calculateMTV is null exactly when doPolygonsIntersect is
\* false, polygons that only touch included.
C3_MTVNullIffNoIntersect ==
    opc # "input" => (mtv.isNull <=> ~ hit)

\* C3 amended: calculateMTV is null exactly when the two closed convex
\* polygons share no point; so doPolygonsIntersect true implies a non-null
\* MTV, and rectangles that only touch get a non-null MTV of length 0 while
\* doPolygonsIntersect is false.
C3_MTVNullIffDisjoint ==
    opc # "input" =>
        /\ mtv.isNull <=> ~ ClosedPolygonsMeet(movingPoly, staticPoly)
        /\ hit => ~ mtv.isNull
        /\ (BothRects /\ RectsTouchOrMeet(movingPoly, staticPoly)
                /\ ~ InteriorsMeet(movingPoly, staticPoly))
              => (~ mtv.isNull /\ MtvLengthIs(mtv, 0) /\ ~ hit)

C3_Witness ==
    /\ movingPoly = Rect(2, 0, 3, 1) /\ staticPoly = Rect(0, 0, 2, 2)
    /\ opc = "tested" /\ ~ mtv.isNull /\ ~ hit

\* The chosen axis and the two projections on it, in units of 1/|n|; the
\* moving polygon's projection after the translation by mtv is its
\* projection before, shifted by sign * overlap.
ChosenAxis == MTVAxes(movingPoly, staticPoly)[MTVAxisIndex(movingPoly, staticPoly)]
ProjStatic == projectPolygon(staticPoly, ChosenAxis)
ProjMoved == projectPolygon(moved.pts, ChosenAxis)

\* v . (centroid(moving) - centroid(static)) >= 0, denominators multiplied out.
PushesAway(v) ==
    LET cm == CentroidNum(movingPoly)
        cs == CentroidNum(staticPoly)
    IN  v.x * (cm.x * Len(staticPoly) - cs.x * Len(movingPoly))
        + v.y * (cm.y * Len(staticPoly) - cs.y * Len(movingPoly)) >= 0

\* |v| is the minimum of the overlap amounts over all edge-normal axes.
IsMinimumOverlap(v) ==
    LET axes == MTVAxes(movingPoly, staticPoly)
        real == {k \in 1..Len(axes) : axes[k].x # 0 \/ axes[k].y # 0}
        ov(k) == AxisOverlap(movingPoly, staticPoly, axes[k])
        len2 == v.x * v.x + v.y * v.y
    IN  /\ \A k \in real :
              len2 * Dot(axes[k], axes[k]) <= ov(k) * ov(k) * v.d * v.d
        /\ \E k \in real :
              len2 * Dot(axes[k], axes[k]) = ov(k) * ov(k) * v.d * v.d

\* After the translation the two projection intervals on the chosen axis
\* meet in exactly one endpoint.
Tangent ==
    LET pm == ProjMoved
        ps == [min |-> moved.d * ProjStatic.min, max |-> moved.d * ProjStatic.max]
    IN  (pm.max = ps.min) \/ (pm.min = ps.max)

\* C4: a non-null MTV v pushes away from the static polygon, has the minimum
\* overlap amount as its length, and leaves the two polygons exactly
\* tangent on the chosen axis.
C4_MTVPushesToTangency ==
    opc = "moved" => (PushesAway(mtv) /\ IsMinimumOverlap(mtv) /\ Tangent)

C4_DirectionAndLength ==
    opc = "moved" => (PushesAway(mtv) /\ IsMinimumOverlap(mtv))

C4_RectTangent ==
    (opc = "moved" /\ BothRects) => Tangent

\* C7 as stated: for rectangles doPolygonsIntersect is true exactly when the
\* two interiors intersect.
C7_IntersectIffPositiveArea ==
    (BothRects /\ opc # "input") => (hit <=> InteriorsMeet(movingPoly, staticPoly))

\* C7 amended: for rectangles doPolygonsIntersect is true exactly when, on
\* both axes, the penetration depth is at least 0.0005 times the sum of the
\* two extents (each rectangle loses 0.0005 of its extent on either side);
\* so it is false for disjoint and for touching rectangles, true for
\* identical ones, and false for overlaps thinner than that margin.
C7_IntersectIffDepthBeyondShrink ==
    (BothRects /\ opc # "input") =>
        /\ hit <=>
             /\ 2000 * DepthX(movingPoly, staticPoly)
                    >= WidthX(movingPoly) + WidthX(staticPoly)
             /\ 2000 * DepthY(movingPoly, staticPoly)
                    >= WidthY(movingPoly) + WidthY(staticPoly)
        /\ ~ InteriorsMeet(movingPoly, staticPoly) => ~ hit
        /\ movingPoly = staticPoly => hit

C7_Witness ==
    /\ opc = "tested" /\ BothRects
    /\ InteriorsMeet(movingPoly, staticPoly) /\ ~ hit

\* ------------------------------------------------ claims on self-intersection
\* A strictly convex ring: every edge has all the other vertices strictly on
\* one and the same side.
IsConvexRing(s) ==
    /\ Len(s) >= 3
    /\ \E side \in {1, 2} :
          \A i \in 1..Len(s) : \A k \in 1..Len(s) :
              (k # i /\ k # NextIdx(i, Len(s)))
                  => orientation(EdgeA(s, i), EdgeB(s, i), s[k]) = side

RingHasCrossing(s) ==
    \E i, j \in 1..Len(s) :
        /\ i # j /\ NextIdx(i, Len(s)) # j /\ NextIdx(j, Len(s)) # i
        /\ ProperCross(EdgeA(s, i), EdgeB(s, i), EdgeA(s, j), EdgeB(s, j))

\* C5: while the vertices of a convex ring (the square (0,0),(10,0),(10,10),
\* (0,10) among them) are appended one by one, and at the closing call, no
\* call of checkPolygonSelfIntersection returns true.
C5_ConvexRingNeverFlagged ==
    IsConvexRing(ring) => (flag = FALSE /\ flagged = FALSE)

C5_Witness ==
    /\ ring = SquareRing /\ dpc = "closed" /\ flag = FALSE /\ flagged = FALSE

\* C6: the closing call returns true for every ring in which two non-adjacent
\* edges properly cross, the ring (0,0),(10,10),(10,0),(0,10) among them.
C6_ClosingCallFlagsCrossing ==
    (dpc = "closed" /\ RingHasCrossing(ring)) => flag = TRUE

\* ----------------------------------------------------- claims on snapping
\* The pairs (moving point, static vertex) and (moving point, closest point
\* on a static edge) over the shapes of type polygon, rectangle or square,
\* written as sets, without the loops of the code.
AreaShapes(shapes) == {k \in 1..Len(shapes) : shapes[k].type \in {"polygon", "rectangle", "square"}}

VertexPairs(moving, shapes) ==
    {[mp |-> ToR(moving[i]), sp |-> ToR(shapes[k].points[j])] :
        <<i, k, j>> \in {t \in (1..Len(moving)) \X AreaShapes(shapes) \X (1..4) :
                           t[3] <= Len(shapes[t[2]].points)}}

EdgePairs(moving, shapes) ==
    {[mp |-> ToR(moving[i]),
      sp |-> getClosestPointOnSegment(ToR(moving[i]), ToR(EdgeA(shapes[k].points, j)),
                                      ToR(EdgeB(shapes[k].points, j)))] :
        <<i, k, j>> \in {t \in (1..Len(moving)) \X AreaShapes(shapes) \X (1..4) :
                           t[3] <= Len(shapes[t[2]].points)}}

PairDist2(pr) == getDistance2(pr.mp, pr.sp)
Under(pairs, thr) == {pr \in pairs : FLess(PairDist2(pr), FInt(thr * thr))}
Nearest(pairs) == {pr \in pairs : \A q \in pairs : ~ FLess(PairDist2(q), PairDist2(pr))}

IsSnapTo(res, pr) ==
    /\ res.hasSnapPoint
    /\ res.snapPoint = pr.sp
    /\ res.delta = RPt(FSub(pr.sp.x, pr.mp.x), FSub(pr.sp.y, pr.mp.y))

\* C1: calculateSnapCorrection gives vertex snapping strict priority: when
\* some (moving point, static vertex) pair is under the threshold the result
\* is delta = vertex - moving point and snapPoint = vertex for a pair of
\* minimum distance, whatever the edge projections are; the edge phase
\* gives the result (the nearest projection under the threshold) only when
\* no vertex pair is under the threshold; with no candidate in either
\* phase the result is delta (0,0) and snapPoint null.
C1_VertexSnapHasPriority ==
    snpc = "corrected" =>
        LET vp == Under(VertexPairs(snPoints, snShapes), snThreshold)
            ep == Under(EdgePairs(snPoints, snShapes), snThreshold)
        IN  IF vp # {} THEN \E pr \in Nearest(vp) : IsSnapTo(snCorrection, pr)
            ELSE IF ep # {} THEN \E pr \in Nearest(ep) : IsSnapTo(snCorrection, pr)
            ELSE /\ ~ snCorrection.hasSnapPoint
                 /\ snCorrection.delta = ToR(Pt(0, 0))

\* A moving point with a static vertex under the threshold and an edge
\* projection strictly closer than every vertex, snapped to a vertex.
C1_Witness ==
    /\ snpc = "corrected"
    /\ LET vp == Under(VertexPairs(snPoints, snShapes), snThreshold)
           ep == Under(EdgePairs(snPoints, snShapes), snThreshold)
       IN  /\ vp # {}
           /\ \E e \in ep : \A v \in vp : FLess(PairDist2(e), PairDist2(v))
           /\ \E v \in vp : snCorrection.snapPoint = v.sp
    /\ snCorrection.hasSnapPoint

\* The pixel step of the grid: sizeMm * pixelsPerMeter / 1000, or sizeMm
\* when there is no calibration.
GridStep(config, ppm) ==
    IF ppm.isNull \/ ppm.v = FInt(0) THEN FInt(config.sizeMm)
    ELSE FDiv(FMul(FInt(config.sizeMm), ppm.v), FInt(1000))

GridIdx == (-(MaxCoord + 4))..(MaxCoord + 4)
GridLine(offset, i, step) == FAdd(FInt(offset), FMul(FInt(i), step))
FDist(a, b) == FAbs(FSub(a, b))

\* coordinate c is the grid line nearest to coordinate v
IsNearestLine(c, v, offset, step) ==
    /\ \E i \in GridIdx : c = GridLine(offset, i, step)
    /\ ~ FLess(FDiv(step, FInt(2)), FDist(c, v))
    /\ \A i \in GridIdx : ~ FLess(FDist(GridLine(offset, i, step), v), FDist(c, v))

\* C9: getClosestGridPoint returns null when the grid is not visible or the
\* pixel step is below 2 (every non-positive step included); otherwise it
\* returns (offsetX + i*step, offsetY + j*step) for integers i, j, the
\* intersection nearest to the input, within step/2 of it on each axis.
C9_GridPointNullOrNearest ==
    snpc = "gridded" =>
        LET step == GridStep(snGrid.config, snPpm)
            p == ToR(snPoints[1])
        IN  IF ~ snGrid.config.visible \/ FLess(step, FInt(2))
            THEN snGridPoint.isNull
            ELSE /\ ~ snGridPoint.isNull
                 /\ IsNearestLine(snGridPoint.pt.x, p.x, snGrid.config.offsetX, step)
                 /\ IsNearestLine(snGridPoint.pt.y, p.y, snGrid.config.offsetY, step)

\* A calibrated grid of step 2.5 pixels that moves the input.
C9_Witness ==
    /\ snpc = "gridded"
    /\ snGrid.config.visible
    /\ GridStep(snGrid.config, snPpm) = Frac(5, 2)
    /\ ~ snGridPoint.isNull
    /\ snGridPoint.pt.x # FInt(snPoints[1].x)
    /\ snGridPoint.pt.y # FInt(snPoints[1].y)

VisibleUnlocked(shape) == shape.visible /\ ~ shape.locked

\* The candidates of getClosestSnapPoint as a set: of every shape, or of
\* the visible, unlocked shapes only.
AreaCandidateSet(target, shape) ==
    UNION {{ToR(EdgeA(shape.points, j)),
            getMidpoint(ToR(EdgeA(shape.points, j)), ToR(EdgeB(shape.points, j))),
            getClosestPointOnSegment(target, ToR(EdgeA(shape.points, j)),
                                     ToR(EdgeB(shape.points, j)))} :
           j \in 1..Len(shape.points)}

AxisCandidateSet(target, shape, ppm) ==
    LET lines == getAxisSystemPoints(shape.points[1], shape.points[2],
                                     shape.axisConfig, ppm).lines
    IN  UNION {{lines[i][1], lines[i][2],
                getClosestPointOnSegment(target, lines[i][1], lines[i][2])} :
               i \in 1..Len(lines)}

GridCandidateSet(target, grid, ppm) ==
    IF grid.present /\ ~ getClosestGridPoint(target, grid.config, ppm).isNull
    THEN {getClosestGridPoint(target, grid.config, ppm).pt}
    ELSE {}

CandidateSet(target, shapes, grid, ppm, every) ==
    GridCandidateSet(target, grid, ppm)
    \cup UNION {AreaCandidateSet(target, shapes[k]) :
                  k \in {k \in AreaShapes(shapes) : every \/ VisibleUnlocked(shapes[k])}}
    \cup UNION {AxisCandidateSet(target, shapes[k], ppm) :
                  k \in {k \in 1..Len(shapes) :
                           /\ shapes[k].type = "axis" /\ shapes[k].hasAxisConfig
                           /\ (every \/ VisibleUnlocked(shapes[k]))}}

\* res is null iff no candidate is under the threshold, and otherwise a
\* candidate at least as near to the target as every candidate.
IsGlobalNearest(res, target, cands, thr) ==
    /\ res.isNull <=> \A c \in cands : ~ FLess(getDistance2(target, c), FInt(thr * thr))
    /\ ~ res.isNull =>
          /\ res.pt \in cands
          /\ \A c \in cands : ~ FLess(getDistance2(target, c), getDistance2(target, res.pt))


\* C8 as stated: the candidates come from every polygon, rectangle, square
\* and axis shape of the list.
C8_GlobalNearestOfAllShapes ==
    snpc = "snapped" =>
        IsGlobalNearest(snClosest, ToR(snPoints[1]),
            CandidateSet(ToR(snPoints[1]), snShapes, snGrid, snPpm, TRUE),
            snThreshold)

\* C8: getClosestSnapPoint returns the global nearest candidate under the
\* threshold over the grid point (when the grid argument is given and
\* getClosestGridPoint yields one) and the vertices, edge midpoints, closest
\* edge points and axis-line points of the shapes that are visible and not
\* locked: null iff no such candidate is nearer than the threshold, else a
\* candidate no farther than any other.
C8_GlobalNearestOfVisibleUnlocked ==
    snpc = "snapped" =>
        IsGlobalNearest(snClosest, ToR(snPoints[1]),
            CandidateSet(ToR(snPoints[1]), snShapes, snGrid, snPpm, FALSE),
            snThreshold)

\* A hidden or locked rectangle has a vertex on the target, and the point
\* returned is another candidate, at a positive distance.
C8_Witness ==
    /\ snpc = "snapped"
    /\ ~ VisibleUnlocked(snShapes[1])
    /\ \E j \in 1..Len(snShapes[1].points) : snShapes[1].points[j] = snPoints[1]
    /\ ~ snClosest.isNull
    /\ snClosest.pt # ToR(snPoints[1])

\* ------------------------------------------------- claims on calibration
\* The sums over the current samples, taken from the last sample back.
RECURSIVE SumOfPixels(_), SumOfMeters(_)
SumOfPixels(data) ==
    IF data = <<>> THEN FInt(0)
    ELSE FAdd(data[Len(data)].pixels, SumOfPixels(SubSeq(data, 1, Len(data) - 1)))
SumOfMeters(data) ==
    IF data = <<>> THEN FInt(0)
    ELSE FAdd(data[Len(data)].meters, SumOfMeters(SubSeq(data, 1, Len(data) - 1)))

TwoPointInEffect == Len(coordRefs) = 2 /\ coordRefs[1].world # coordRefs[2].world

\* C10: with no two-point reference in effect, pixelsPerMeter is (sum of
\* pixels) / (sum of meters) over the current samples when the sum of
\* meters is positive, and null when there are no samples or that sum is
\* not positive.
C10_ScaleIsRatioOfSums ==
    ~ TwoPointInEffect =>
        IF calibrationData # <<>> /\ FLess(FInt(0), SumOfMeters(calibrationData))
        THEN /\ ~ pixelsPerMeter.isNull
             /\ FMul(pixelsPerMeter.v, SumOfMeters(calibrationData))
                    = SumOfPixels(calibrationData)
        ELSE pixelsPerMeter.isNull

\* Two samples whose own ratios differ, so that the ratio of the sums is
\* not the mean of the ratios: 3 px for 0.5 m and 8 px for 2 m give 11/2.5.
C10_Witness ==
    /\ ~ TwoPointInEffect
    /\ Len(calibrationData) = 2
    /\ calibrationData[1] = [pixels |-> FInt(3), meters |-> Frac(1, 2)]
    /\ calibrationData[2] = [pixels |-> FInt(8), meters |-> FInt(2)]
    /\ pixelsPerMeter = Ppm(Frac(22, 5))
    /\ pixelsPerMeter.v # FDiv(FAdd(Frac(6, 1), Frac(4, 1)), FInt(2))

\* ------------------------------------------------------- claims on export
Exported == fnpc \in {"dxf", "geojson", "ifc"}

\* Two references with distinct pixel positions exist.
TwoDistinctRefs == Len(coordRefs) = 2 /\ coordRefs[1].pixel # coordRefs[2].pixel

\* The x, y of the mapping without the world transform: pixels divided by
\* the scalar scale with y negated, or raw pixels with y negated (divided
\* by 1000 in the IFC export).
ScalarXY(p) ==
    [x |-> FDiv(FInt(p.x), pixelsPerMeter.v), y |-> FDiv(FInt(-p.y), pixelsPerMeter.v)]
RawXY(p) ==
    IF fnpc = "ifc" THEN [x |-> Frac(p.x, 1000), y |-> Frac(-p.y, 1000)]
    ELSE [x |-> FInt(p.x), y |-> FInt(-p.y)]
FallbackXY(p) == IF Truthy(pixelsPerMeter) THEN ScalarXY(p) ELSE RawXY(p)
XYOf(r) == [x |-> r.x, y |-> r.y]

\* C11: with useWorldCoordinates set and zero, one, or two references of
\* coincident pixel positions, the point mappers fall back to the scalar or
\* raw-pixel mapping, so the two distinct pixel points of the export are not
\* mapped to one coordinate.
C11_WorldTransformOnlyForDistinctRefs ==
    (Exported /\ fnArgs.useWorldCoordinates /\ ~ TwoDistinctRefs) =>
        /\ \A k \in 1..2 : XYOf(fnResult[k]) = FallbackXY(fnArgs.points[k])
        /\ XYOf(fnResult[1]) # XYOf(fnResult[2])

\* The ruler-sample ratio, and the ratio of the pixel distance to the
\* world distance of two references.
HasRulerScale == calibrationData # <<>> /\ FLess(FInt(0), SumOfMeters(calibrationData))
RulerScale == FDiv(SumOfPixels(calibrationData), SumOfMeters(calibrationData))
TwoPointScale ==
    Frac(PointDistance(coordRefs[1].pixel, coordRefs[2].pixel),
         PointDistance(coordRefs[1].world, coordRefs[2].world))
WorldsDiffer ==
    \/ coordRefs[1].world.x # coordRefs[2].world.x
    \/ coordRefs[1].world.y # coordRefs[2].world.y

ExpectedScale ==
    IF Len(coordRefs) = 2 /\ WorldsDiffer THEN Ppm(TwoPointScale)
    ELSE IF HasRulerScale THEN Ppm(RulerScale)
    ELSE PpmNull

Transformed == fnpc = "transformPointToWorld"
RefsDistinct == fnArgs.ref1.pixel # fnArgs.ref2.pixel
SpecRefs ==
    /\ fnArgs.ref1.pixel = Pt(0, 0) /\ fnArgs.ref2.pixel = Pt(100, 0)
    /\ fnArgs.ref1.world.x = 0 /\ fnArgs.ref1.world.y = 0
    /\ fnArgs.ref2.world.x = 10 /\ fnArgs.ref2.world.y = 0
ResultXY(x, y) == fnResult.x = FInt(x) /\ fnResult.y = FInt(y)

\* C13: for references with distinct pixel positions transformPointToWorld
\* maps ref1.pixel to ref1.world and ref2.pixel to ref2.world (x, y); with
\* references (0,0)->(0,0) and (100,0)->(10,0) it maps (50,0) to (5,0) and
\* (100,100) to (10,10).
C13_TransformFixesReferences ==
    (Transformed /\ RefsDistinct) =>
        /\ fnArgs.pixelPoint = fnArgs.ref1.pixel
              => ResultXY(fnArgs.ref1.world.x, fnArgs.ref1.world.y)
        /\ fnArgs.pixelPoint = fnArgs.ref2.pixel
              => ResultXY(fnArgs.ref2.world.x, fnArgs.ref2.world.y)
        /\ (SpecRefs /\ fnArgs.pixelPoint = Pt(50, 0)) => ResultXY(5, 0)
        /\ (SpecRefs /\ fnArgs.pixelPoint = Pt(100, 100)) => ResultXY(10, 10)

\* The second reference, whose world direction is turned a quarter against
\* its pixel direction, mapped onto its world position.
C13_Witness ==
    /\ Transformed
    /\ fnArgs.ref1.pixel = Pt(0, 0) /\ fnArgs.ref2.pixel = Pt(100, 0)
    /\ fnArgs.ref1.world.x = 0 /\ fnArgs.ref1.world.y = 0
    /\ fnArgs.ref2.world.x = 0 /\ fnArgs.ref2.world.y = 24
    /\ fnArgs.pixelPoint = fnArgs.ref2.pixel
    /\ ResultXY(0, 24)

\* The projection parameter of the query point on the ref1 -> ref2 pixel
\* vector, not clamped.
QueryT ==
    LET dx == fnArgs.ref2.pixel.x - fnArgs.ref1.pixel.x
        dy == fnArgs.ref2.pixel.y - fnArgs.ref1.pixel.y
    IN  FDiv(FInt((fnArgs.pixelPoint.x - fnArgs.ref1.pixel.x) * dx
                  + (fnArgs.pixelPoint.y - fnArgs.ref1.pixel.y) * dy),
             FInt(dx * dx + dy * dy))

ElevationRule ==
    LET w1 == fnArgs.ref1.world
        w2 == fnArgs.ref2.world
    IN  /\ (w1.hasZ /\ w2.hasZ) =>
              /\ fnResult.z = SomeZ(FAdd(FInt(w1.z), FMul(QueryT, FInt(w2.z - w1.z))))
              /\ fnArgs.pixelPoint = fnArgs.ref1.pixel => fnResult.z = SomeZ(FInt(w1.z))
              /\ fnArgs.pixelPoint = fnArgs.ref2.pixel => fnResult.z = SomeZ(FInt(w2.z))
        /\ (w1.hasZ /\ ~ w2.hasZ) => fnResult.z = SomeZ(FInt(w1.z))
        /\ (~ w1.hasZ /\ w2.hasZ) => fnResult.z = SomeZ(FInt(w2.z))
        /\ (~ w1.hasZ /\ ~ w2.hasZ) => ~ fnResult.z.hasZ

\* C14 as stated, for every pair of references: with one reference carrying
\* z the result z is that z for every query point, with none it is undefined.
C14_ElevationForAllRefs ==
    Transformed =>
        LET w1 == fnArgs.ref1.world
            w2 == fnArgs.ref2.world
        IN  /\ (w1.hasZ /\ ~ w2.hasZ) => fnResult.z = SomeZ(FInt(w1.z))
            /\ (~ w1.hasZ /\ w2.hasZ) => fnResult.z = SomeZ(FInt(w2.z))
            /\ (~ w1.hasZ /\ ~ w2.hasZ) => ~ fnResult.z.hasZ
            /\ (w1.hasZ /\ w2.hasZ) => fnResult.z.hasZ

\* C14: for references with distinct pixel positions, the result z is
\* ref1.z + t * (ref2.z - ref1.z) with t the unclamped projection parameter
\* when both references carry z (ref1.z at ref1's pixel, ref2.z at ref2's),
\* the z of the one reference that carries it otherwise, and undefined when
\* neither does; for coincident pixel positions the result is (0,0) with z
\* undefined whatever the references carry.
C14_ElevationForDistinctRefs ==
    Transformed =>
        IF RefsDistinct THEN ElevationRule
        ELSE ResultXY(0, 0) /\ ~ fnResult.z.hasZ

\* A query point beyond the second reference (t = 2): z 3 and 7 give 11.
C14_Witness ==
    /\ Transformed
    /\ fnArgs.ref1.pixel = Pt(0, 0) /\ fnArgs.ref2.pixel = Pt(100, 0)
    /\ fnArgs.pixelPoint = Pt(200, 0)
    /\ fnArgs.ref1.world = WorldZ(0, 0, 3) /\ fnArgs.ref2.world = WorldZ(0, 24, 7)
    /\ fnResult.z = SomeZ(FInt(11))

\* ------------------------------------------------------- claims on axes
AxisDone == fnpc = "getAxisSystemPoints"
AxConfig == fnArgs.config
AxLines == fnResult.lines
AxLabels == fnResult.labels

\* The label of line index i (0-based): with bothEnds two labels belong to
\* each line, otherwise one.
LabelsOfLine(i) ==
    IF AxConfig.bothEnds THEN <<AxLabels[2 * i + 1], AxLabels[2 * i + 2]>>
    ELSE <<AxLabels[i + 1]>>

\* startLabel advanced by `step`: numerically when it parses as an integer,
\* by the character code of its first character otherwise.
Advanced(startLabel, step) ==
    IF ~parseInt(startLabel).nan
    THEN toString(parseInt(startLabel).v + step)
    ELSE <<startLabel[1] + step>>

\* C15: for line index i = 0..n-1 the label is startLabel advanced by i
\* steps (by -i steps when reverse), numerically when startLabel parses as
\* an integer and by the character code of its first character otherwise
\* (as long as that stays a character code); "A", 3, forward gives A, B, C
\* and "5", 3, reverse gives 5, 4, 3; with bothEnds the same label is emitted
\* at both endpoints of each line, otherwise only at the origin-side
\* endpoint.  An empty startLabel counts as "1".
C15_LabelSequence ==
    (AxisDone /\ AxConfig.defined) =>
        LET start == IF AxConfig.startLabel = <<>> THEN <<49>>
                     ELSE AxConfig.startLabel
        IN  /\ Len(AxLabels) = (IF AxConfig.bothEnds THEN 2 ELSE 1) * Len(AxLines)
            /\ \A i \in 0..(Len(AxLines) - 1) :
                  LET step == IF AxConfig.reverse THEN -i ELSE i
                      ls == LabelsOfLine(i)
                  IN  /\ ls[1].pos = AxLines[i + 1][1]
                      /\ AxConfig.bothEnds =>
                            /\ ls[2].pos = AxLines[i + 1][2]
                            /\ ls[2].text = ls[1].text
                      /\ (~parseInt(start).nan \/ start[1] + step \in 0..65535)
                            => ls[1].text = Advanced(start, step)
            /\ (AxConfig.startLabel = <<65>> /\ ~AxConfig.reverse /\ Len(AxLines) = 3)
                  => [i \in 1..3 |-> LabelsOfLine(i - 1)[1].text]
                        = << <<65>>, <<66>>, <<67>> >>
            /\ (AxConfig.startLabel = <<53>> /\ AxConfig.reverse /\ Len(AxLines) = 3)
                  => [i \in 1..3 |-> LabelsOfLine(i - 1)[1].text]
                        = << <<53>>, <<52>>, <<51>> >>

\* "5", count 3, reverse, bothEnds: six labels 5, 5, 4, 4, 3, 3.
C15_Witness ==
    /\ AxisDone /\ AxConfig.defined
    /\ AxConfig.startLabel = <<53>> /\ AxConfig.reverse /\ AxConfig.bothEnds
    /\ Len(AxLines) = 3
    /\ [k \in 1..6 |-> AxLabels[k].text]
          = << <<53>>, <<53>>, <<52>>, <<52>>, <<51>>, <<51>> >>
    /\ AxLabels[2].pos # AxLabels[1].pos

\* The guards the claim lists.
ListedEmpty(config, ppm) ==
    \/ ~config.defined
    \/ (~config.countNaN /\ config.count <= 0)
    \/ config.spacingMm <= 0
    \/ config.lengthMm <= 0
    \/ FLess(FAbs(FMul(FInt(config.spacingMm), PxPerMm(ppm))), Frac(1, 10))
    \/ FLess(FInt(50000), FAbs(FMul(FInt(config.lengthMm), PxPerMm(ppm))))

\* C16: getAxisSystemPoints returns empty lines and labels when the config
\* is missing, when count, spacingMm or lengthMm is <= 0 (or count is NaN),
\* when the pixel spacing is below 0.1 or the pixel length exceeds 50000;
\* otherwise exactly min(count, 100) lines and as many labels (twice as
\* many with bothEnds); never more than 100 lines.
C16_BoundedAndTotal ==
    AxisDone =>
        /\ (ListedEmpty(AxConfig, fnArgs.ppm) \/ AxConfig.countNaN)
              => fnResult = NoAxisSystem
        /\ ~(ListedEmpty(AxConfig, fnArgs.ppm) \/ AxConfig.countNaN) =>
              /\ Len(AxLines) = Min2(AxConfig.count, 100)
              /\ Len(AxLabels) = (IF AxConfig.bothEnds THEN 2 ELSE 1) * Len(AxLines)
        /\ Len(AxLines) <= 100

\* A count of 101 gives 100 lines and, with bothEnds, 200 labels.
C16_Witness ==
    /\ AxisDone /\ AxConfig.defined /\ ~AxConfig.countNaN
    /\ AxConfig.count = 101 /\ AxConfig.bothEnds
    /\ Len(AxLines) = 100 /\ Len(AxLabels) = 200

\* --------------------------------------------------- claims on polygons
UnitSquare == <<Pt(0, 0), Pt(1, 0), Pt(1, 1), Pt(0, 1)>>

\* C17: getPolygonArea is 1 for the unit square; for every point list it is
\* unchanged by any cyclic rotation of the list and by reversing it; it is
\* never negative; it is 0 for fewer than 3 points; for a triangle it is
\* half the absolute cross product of two of its sides.
C17_AbsoluteShoelaceArea ==
    fnpc = "getPolygonArea" =>
        LET pts == fnArgs.points
            area == fnResult.area
        IN  /\ pts = UnitSquare => area = FInt(1)
            /\ \A k \in 1..Len(pts) : getPolygonArea(RotateList(pts, k)) = area
            /\ getPolygonArea(ReverseList(pts)) = area
            /\ ~FLess(area, FInt(0))
            /\ Len(pts) < 3 => area = FInt(0)
            /\ Len(pts) = 3 =>
                  area = Frac(Abs((pts[2].x - pts[1].x) * (pts[3].y - pts[1].y)
                                  - (pts[3].x - pts[1].x) * (pts[2].y - pts[1].y)), 2)

\* The unit square listed clockwise from (1,1): area 1.
C17_Witness ==
    /\ fnpc = "getPolygonArea"
    /\ fnArgs.points = ReverseList(RotateList(UnitSquare, 2))
    /\ fnArgs.points # UnitSquare
    /\ fnResult.area = FInt(1)

\* The bounding box of the polygon of the call.
PipBox == getBoundingBox(fnArgs.polygon)

StrictlyInsideBox(p, box) ==
    box.minX < p.x /\ p.x < box.maxX /\ box.minY < p.y /\ p.y < box.maxY

OutsideBox(p, box) ==
    p.x < box.minX \/ p.x > box.maxX \/ p.y < box.minY \/ p.y > box.maxY

\* C18: isPointInPolygon returns true for every point strictly inside an
\* axis-aligned rectangle and false for every point strictly outside it
\* ((0.5,0.5) inside and (1.5,0.5) outside the unit square), false for
\* every point outside the bounding box of any polygon, and the same
\* answer when called again with the same input, boundary points included.
C18_EvenOddWithBoxRejection ==
    fnpc = "isPointInPolygon" =>
        LET p == fnArgs.p
            poly == fnArgs.polygon
        IN  /\ \A k \in 1..Len(fnResult) : fnResult[k] = fnResult[1]
            /\ OutsideBox(p, PipBox) => ~fnResult[1]
            /\ poly \in PipRects =>
                  /\ StrictlyInsideBox(p, PipBox) => fnResult[1]
                  /\ OutsideBox(p, PipBox) => ~fnResult[1]
            /\ (poly = Rect(0, 0, 2, 2) /\ p = Pt(1, 1)) => fnResult[1]
            /\ (poly = Rect(0, 0, 2, 2) /\ p = Pt(3, 1)) => ~fnResult[1]

\* The boundary point (0, 0.5) of the unit square, asked twice.
C18_Witness ==
    /\ fnpc = "isPointInPolygon"
    /\ fnArgs.polygon = Rect(0, 0, 2, 2) /\ fnArgs.p = Pt(0, 1)
    /\ Len(fnResult) = 2 /\ fnResult[2] = fnResult[1]

IsTall(points) ==
    10 * getBoundingBox(points).height > 12 * getBoundingBox(points).width

\* C19: for every polygon with at least 3 vertices whose bounding box is
\* taller than 1.2 times its width the returned rotation is -90; only for
\* the other polygons is the rotation derived from the longest edge's
\* angle normalized into [-90, 90]: 0 within 10 degrees of 0, -90 within 10
\* degrees of +-90, the angle itself otherwise.
C19_TallGivesMinus90 ==
    (fnpc = "getPolygonLabelStats" /\ Len(fnArgs.points) >= 3) =>
        IF IsTall(fnArgs.points) THEN fnResult.rotation = RotDeg(-90)
        ELSE fnResult.rotation = EdgeRotation(fnArgs.points)

\* ------------------------------------------- claims on resolveAllOverlaps
\* The number of passes run when the loop has been left: the pass that found
\* no overlap is not counted by iteration.
PassesRun == IF hasOverlap THEN iteration ELSE iteration + 1

LoopLeft == fnpc \in {"snap", "resolved"}

\* C20: resolveAllOverlaps leaves its loop after at most 10 passes over the
\* static polygons, also when the moving polygon is pushed back and forth
\* between two static polygons (the loop counter never passes 10 and every
\* pass but the last raises it); and whenever the loop is left by a pass
\* without overlap, the translated polygon (before the vertex snap)
\* intersects none of the static polygons according to doPolygonsIntersect.
C20_TerminatesWithinTenPasses ==
    /\ iteration <= 10
    /\ fnpc = "loop" => iteration < 10
    /\ LoopLeft => PassesRun <= 10
    /\ (LoopLeft /\ ~hasOverlap) =>
          \A k \in 1..Len(fnArgs.staticPolygons) :
              ~doPolygonsIntersect(currentPoly.pts,
                                   ScaleUp(fnArgs.staticPolygons[k], currentPoly.d))

\* A rectangle three wide between two rectangles one apart: every pass moves
\* it right and left again, and the tenth pass still finds an overlap.
C20_Witness ==
    /\ fnpc = "resolved"
    /\ fnArgs.staticPolygons = <<StaticLeft, StaticRight>>
    /\ fnArgs.movingPoly = Rect(1, 1, 4, 3)
    /\ iteration = 10 /\ hasOverlap
    /\ currentPoly.pts # fnArgs.movingPoly

\* The static vertices and the closest points of the static edges to v.
StaticSnapPoints(v, staticPolygons) ==
    UNION {{ToR(staticPolygons[k][i]) : i \in 1..Len(staticPolygons[k])}
           \cup {getClosestPointOnSegment(v, ToR(staticPolygons[k][i]),
                     ToR(staticPolygons[k][NextIdx(i, Len(staticPolygons[k]))])) :
                    i \in 1..Len(staticPolygons[k])} :
           k \in 1..Len(staticPolygons)}

\* C21: the vertex-snap pass of resolveAllOverlaps (threshold 5) returns as
\* many vertices as the translated polygon has, in the same order; each is
\* the translated vertex unchanged when no static vertex or static edge
\* point lies at distance < 5 from it, and otherwise a nearest one of those
\* at distance < 5.
C21_VertexSnapNearestWithinFive ==
    fnpc = "resolved" =>
        LET before == PolyPoints(currentPoly)
        IN  /\ Len(fnResult) = Len(before)
            /\ \A i \in 1..Len(before) :
                  LET v == before[i]
                      near == {c \in StaticSnapPoints(v, fnArgs.staticPolygons) :
                                  FLess(getDistance2(v, c), FInt(25))}
                  IN  IF near = {} THEN fnResult[i] = v
                      ELSE /\ fnResult[i] \in near
                           /\ \A c \in near :
                                 ~FLess(getDistance2(v, c), getDistance2(v, fnResult[i]))

\* A rectangle below the upper static rectangle: its lower vertices lie
\* exactly 5 from it and stay, its upper vertices lie 3 from it and move.
C21_Witness ==
    /\ fnpc = "resolved"
    /\ fnArgs.staticPolygons = <<StaticAbove>>
    /\ fnArgs.movingPoly = Rect(0, 0, 2, 2)
    /\ fnResult = <<ToR(Pt(0, 0)), ToR(Pt(2, 0)), ToR(Pt(2, 5)), ToR(Pt(0, 5))>>

\* ------------------------------------------------ claims on degenerate input
\* C22: called with an empty list, one point, two points or a zero-length
\* segment, none of the nine functions throws, and: the centroid of one
\* point is that point, of two points their midpoint; the area of fewer
\* than 3 vertices is 0; the distance to a zero-length segment is the
\* distance to its start point.
C22_TotalOnDegenerateInput ==
    fnpc \notin {"idle", "input"} =>
        /\ ~fnResult.threw
        /\ (fnpc = "getCentroid" /\ Len(fnArgs.points) = 1)
              => fnResult.value = ToR(fnArgs.points[1])
        /\ (fnpc = "getCentroid" /\ Len(fnArgs.points) = 2)
              => fnResult.value = getMidpoint(ToR(fnArgs.points[1]), ToR(fnArgs.points[2]))
        /\ (fnpc = "getPolygonArea" /\ Len(fnArgs.points) < 3)
              => fnResult.value = FInt(0)
        /\ (fnpc = "pointToLineDistance" /\ fnArgs.other[1] = fnArgs.other[2])
              => fnResult.value = getDistance2(ToR(fnArgs.p), ToR(fnArgs.other[1]))

\* ------------------------------------------------- claims on the DXF handles
\* The value of a string of the digits 0-9 and A-F read as a hexadecimal
\* numeral, -1 if another character occurs.
RECURSIVE UpperHexValue(_)
UpperHexValue(str) ==
    IF str = <<>> THEN 0
    ELSE LET c == str[Len(str)]
             v == IF 48 <= c /\ c <= 57 THEN c - 48
                  ELSE IF 65 <= c /\ c <= 70 THEN c - 55 ELSE -1
             rest == UpperHexValue(SubSeq(str, 1, Len(str) - 1))
         IN  IF v < 0 \/ rest < 0 THEN -1 ELSE 16 * rest + v

Cross2(a, b) == a.x * b.y - a.y * b.x
Minus(a, b) == Pt(a.x - b.x, a.y - b.y)

InUnitInterval(num, den) ==
    IF den > 0 THEN 0 <= num /\ num <= den ELSE den <= num /\ num <= 0

PointOnSegment(r, p, q) ==
    /\ p = q => r = p
    /\ Cross2(Minus(q, p), Minus(r, p)) = 0
    /\ 0 <= Dot(Minus(r, p), Minus(q, p))
    /\ Dot(Minus(r, p), Minus(q, p)) <= Dot(Minus(q, p), Minus(q, p))

SegmentsSharePoint(p, q, r, s) ==
    LET d1 == Minus(q, p)
        d2 == Minus(s, r)
        det == Cross2(d1, d2)
    IN  IF det # 0
        THEN /\ InUnitInterval(Cross2(Minus(r, p), d2), det)
             /\ InUnitInterval(Cross2(Minus(r, p), d1), det)
        ELSE \/ PointOnSegment(p, r, s) \/ PointOnSegment(q, r, s)
             \/ PointOnSegment(r, p, q) \/ PointOnSegment(s, p, q)

\* C25: for integer endpoints doLineSegmentsIntersect is true exactly when
\* the two closed segments share a point, and its value does not change when
\* the segments are exchanged or the endpoints of either are exchanged.
C25_IntersectIffSharePoint ==
    fnpc = "doLineSegmentsIntersect" =>
        LET a == fnArgs.p1
            b == fnArgs.q1
            c == fnArgs.p2
            d == fnArgs.q2
        IN  /\ fnResult = SegmentsSharePoint(a, b, c, d)
            /\ fnResult = doLineSegmentsIntersect(c, d, a, b)
            /\ fnResult = doLineSegmentsIntersect(b, a, c, d)
            /\ fnResult = doLineSegmentsIntersect(a, b, d, c)

\* Collinear overlapping segments (0,0)-(2,0) and (1,0)-(2,0) meet.
C25_Witness ==
    /\ fnpc = "doLineSegmentsIntersect"
    /\ fnArgs.perUnit = 1
    /\ fnArgs.p1 = Pt(0, 0) /\ fnArgs.q1 = Pt(2, 0)
    /\ fnArgs.p2 = Pt(1, 0) /\ fnArgs.q2 = Pt(2, 0)
    /\ fnResult = TRUE

\* Some endpoint of a1-a2 is within 0.1, in x and in y, of some endpoint of
\* b1-b2 (coordinates in 1/perUnit).
EndpointsNear(a1, a2, b1, b2, perUnit) ==
    \E e \in {a1, a2}, f \in {b1, b2} :
        10 * Abs(e.x - f.x) < perUnit /\ 10 * Abs(e.y - f.y) < perUnit

AllCollinear(a1, a2, b1, b2) ==
    /\ Cross2(Minus(a2, a1), Minus(b1, a1)) = 0
    /\ Cross2(Minus(a2, a1), Minus(b2, a1)) = 0
    /\ Cross2(Minus(b2, b1), Minus(a1, b1)) = 0
    /\ Cross2(Minus(b2, b1), Minus(a2, b1)) = 0

SegA1 == fnArgs.p1
SegA2 == fnArgs.q1
SegB1 == fnArgs.p2
SegB2 == fnArgs.q2

\* The parts of C26 that do not depend on how near the endpoints are:
\* segmentsCross is false when an endpoint of one segment is within 0.1 of an
\* endpoint of the other and false for collinear segments;
\* checkPolygonSelfIntersection is false for fewer than 3 existing points,
\* and with 3 existing points it tests the new segment against the first
\* edge only, which cannot report a crossing when the new point closes the
\* ring.
SharedVertexNeverReported ==
    fnpc = "segmentsCross" =>
        /\ EndpointsNear(SegA1, SegA2, SegB1, SegB2, fnArgs.perUnit) => fnResult = FALSE
        /\ AllCollinear(SegA1, SegA2, SegB1, SegB2) => fnResult = FALSE
        /\ fnArgs.perUnit = 1 => fnResult = segmentsCross(SegA1, SegA2, SegB1, SegB2)
        /\ ~ checkPolygonSelfIntersectionAt(<<>>, SegA1, fnArgs.perUnit)
        /\ ~ checkPolygonSelfIntersectionAt(<<SegA1>>, SegA2, fnArgs.perUnit)
        /\ ~ checkPolygonSelfIntersectionAt(<<SegA1, SegA2>>, SegB1, fnArgs.perUnit)
        /\ checkPolygonSelfIntersectionAt(<<SegB1, SegB2, SegA1>>, SegA2, fnArgs.perUnit)
               = fnResult
        /\ NearEpsAt(SegA2, SegB1, fnArgs.perUnit)
               => ~ checkPolygonSelfIntersectionAt(<<SegB1, SegB2, SegA1>>, SegA2,
                                                   fnArgs.perUnit)

\* C26 as stated: in addition, segmentsCross is true for every pair of
\* segments that cross at a point interior to both.
C26_EveryInteriorCrossingReported ==
    /\ SharedVertexNeverReported
    /\ (fnpc = "segmentsCross" /\ ProperCross(SegA1, SegA2, SegB1, SegB2))
           => fnResult = TRUE

\* C26, amended: segmentsCross is true for every pair of segments that cross
\* at a point interior to both and have no endpoint within 0.1 of an
\* endpoint of the other; the other parts as stated.
C26_InteriorCrossingOfApartEndpoints ==
    /\ SharedVertexNeverReported
    /\ (fnpc = "segmentsCross" /\ ProperCross(SegA1, SegA2, SegB1, SegB2)
        /\ ~ EndpointsNear(SegA1, SegA2, SegB1, SegB2, fnArgs.perUnit))
           => fnResult = TRUE

\* The edge (0,1)-(10,1) and the segment (10,10)-(9.95,0.95), which crosses
\* it at x = 9.95..., 0.05 from the corner (10,1): not reported.
C26_Witness ==
    /\ fnpc = "segmentsCross"
    /\ fnArgs.perUnit = FineUnit
    /\ SegA1 = Pt(0, 20) /\ SegA2 = Pt(200, 20)
    /\ SegB1 = Pt(200, 200) /\ SegB2 = Pt(199, 19)
    /\ ProperCross(SegA1, SegA2, SegB1, SegB2)
    /\ fnResult = FALSE

\* ------------------------------------------------ claims on polygon pairs
\* C28: doPolygonsIntersect(A, B) = doPolygonsIntersect(B, A), and the value
\* is the same for every cyclic rotation of the vertex list of A and of B.
C28_SymmetricAndRotationInvariant ==
    fnpc = "doPolygonsIntersect" =>
        /\ fnResult = doPolygonsIntersect(fnArgs.poly2, fnArgs.poly1)
        /\ \A k \in 1..(Len(fnArgs.poly1) - 1) :
              fnResult = doPolygonsIntersect(RotateList(fnArgs.poly1, k), fnArgs.poly2)
        /\ \A k \in 1..(Len(fnArgs.poly2) - 1) :
              fnResult = doPolygonsIntersect(fnArgs.poly1, RotateList(fnArgs.poly2, k))

\* A triangle inside a square, no edges meeting: found by the containment
\* test of the first vertex alone.
C28_Witness ==
    /\ fnpc = "doPolygonsIntersect"
    /\ fnArgs.poly1 = <<Pt(1, 1), Pt(3, 1), Pt(2, 2)>>
    /\ fnArgs.poly2 = Rect(0, 0, 4, 4)
    /\ fnResult = TRUE

PathHasCrossing(s) ==
    \E i, j \in 1..(Len(s) - 1) :
        /\ i + 1 < j
        /\ ProperCross(s[i], s[i + 1], s[j], s[j + 1])

AreasOverlap(r, s) ==
    /\ r[1].x < s[3].x /\ s[1].x < r[3].x
    /\ r[1].y < s[3].y /\ s[1].y < r[3].y

\* The points of the dragged shape at worldPos: the drag's initial points
\* moved by the raw displacement plus the delta of the snap correction.
MovedTo(worldPos, snap) ==
    TranslateBy(dragState.initialShapesMap[1].points,
                (worldPos.x - dragState.startX) + IntOf(snap.delta.x),
                (worldPos.y - dragState.startY) + IntOf(snap.delta.y))

\* The dragged shape at these points meets a shape that is not dragged, or
\* leaves the image while drawing outside is not allowed.
MoveBlocked(points) ==
    \/ \E k \in 1..Len(sheetShapes) :
          /\ sheetShapes[k].id # dragState.initialShapesMap[1].id
          /\ IsAreaShape(sheetShapes[k])
          /\ doPolygonsIntersect(points, sheetShapes[k].points)
    \/ ~ allowOutsideDraw /\ OutOfImage(points)

C24_InputsUntouched ==
    fnpc # "input" =>
        /\ \A k \in 1..Len(fnArgs.refs) :
              /\ Len(heap[fnArgs.refs[k]]) = Len(fnArgs.before[k])
              /\ heap[fnArgs.refs[k]] = fnArgs.before[k]
        /\ fnpc \in {"scalePolygon", "resolveAllOverlaps"} =>
              /\ fnResult \in 1..Len(heap)
              /\ \A k \in 1..Len(fnArgs.refs) : fnResult # fnArgs.refs[k]

\* resolveAllOverlaps on the square (1,1)-(3,3) and the static rectangle
\* (0,0)-(2,4), which overlap: the array returned holds the square pushed
\* out, and the array passed in still holds the square where it was.
C24_Witness ==
    /\ fnpc = "resolveAllOverlaps"
    /\ fnArgs.refs = <<1, 2>>
    /\ heap[1] = ToRSeq(Rect(1, 1, 3, 3))
    /\ heap[2] = ToRSeq(StaticLeft)
    /\ fnResult \in 3..Len(heap)
    /\ heap[fnResult] # heap[1]


====
